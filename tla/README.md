# LeetBot in TLA+

A model of the Discord bot in `src/`: what its coroutines, HTTP completions,
button threads and SQL statements do to the state they share, what that state
promises, and proofs of the promises for every number of users and commands.

Paths below are relative to the repository; `API` is
`src/http/LeetCodeAPI.cpp`, `DB` is `src/database/LeetoDB.cpp`.

## 1. The system

One process. `main` (`src/Leeto.cpp`) opens a MySQL connection, gives up if that
fails, and starts a D++ cluster. D++ runs every event handler, every HTTP
completion and every resumed coroutine on its thread pool, so all of them run
side by side. Nothing in the project takes a lock.

| Component | State | Operations | Interacts with |
|---|---|---|---|
| Database, `DB` | table `users`, `connected`, one `sql::Connection` | `connect`, `disconnect`, `registerUser` (SELECT COUNT, INSERT), `updateProfile` (SELECT, UPDATE), `getLeetcodeUsername`, `statsExist`, `getLeetcodeProfile`, `getLeetcodeAvatar` (unused) | called by the command handlers and by HTTP completions |
| Registration, `commands/RegistryCommands.cpp` | one coroutine per command, a promise/future pair | `/register user` | Discord (awaited edits), `fetchLeetCodeDescription`, `registerUser` |
| `/leetcode`, `commands/LeetCodeCommands.cpp` | one coroutine per command | `profile`, `updateprofile`, `dailyquestion`, `activity` | the table, the fetchers (not awaited) |
| LeetCode client, `API` | the completion of each request, a retry count | description (bio), profile, daily question, activity, solutions, problem description | D++ `request`; edits that nobody awaits; `updateProfile`; the page maps |
| Solution pages, `PerUserPage.cpp`, `handlers/LeetCodePage*.cpp` | `userSolutionPages`, `solutionCurrentPage` | fill (by a completion), turn and render (by arrows) | one thread per press |
| Buttons and menu, `handlers/LeetCodeButtonHandlers.cpp` | `userLanguageMap` | language menu, Solution and Description buttons | starts fetches |
| Process and dispatch, `Leeto.cpp`, `SlashCommands.cpp`, `InfoCommands.cpp` | the running process, D++ `run_once` flag, the commands Discord offers | start, command registration, dispatch by name and id, `/ping`, `/info` | starts coroutines |
| Text, `TextReplace.cpp` | none | `htmlToMarkdown`, `removeNewLines`, `htmlDecoder` | used by the client |
| Credentials, `ReadAuthFile.cpp` | none | `readAuthFile` | used by `main` |
| D++, `dependencies/include/dpp-10.1` | thread pool, event router, promises of tasks and calls | runs a handler, suspends and resumes its frames | everything above runs in it |

**What is hard here.** Two statements that belong together (register, update)
with other threads between them. Values read before an await and used after it
(the Discord name, the LeetCode account). A completion that calls a one-shot
callback up to three times. Edits that nobody awaits racing those that are.
Reads by name and writes by id. Three maps that several threads check and then
change. Completions that sleep on the threads of the pool that has to wake them.
Answers of Discord that overtake the coroutine on its way to await them. A process
that may die between any two of these steps, with a table that survives and maps
that do not.

**What makes each part correct.**

* Registration: one row per user; only verified links; answers that are true;
  every command answered; bounded requests to LeetCode; restart-safe.
* Profile: statistics only of the linked account, never going back; links never
  moved by a refresh; users shown their own profile.
* Pages: never off the list, always the newest list, each user's page turned by
    that user alone; disorder ends with the next fresh list.
* Fetches that keep nothing: one answer each, after its acknowledgement; a pool
  that is never asleep for good.
* Process: commands created once, offered, each handled by one handler.
* Coroutines: a frame goes on once for what it awaits, frees what it started, and
  never outlives the event it refers to.
* Text: the problem, the solution and the credentials come out as they were meant.

`PROJECT.json` lists the hazards at their lines with the properties that watch
them.

## 2. Modules

| Module | Models |
|---|---|
| `LeetoDB` | the table and the methods of `LeetoDB.cpp`, a statement at a time |
| `Registry` | abstract: users are linked to verified accounts, once, for good |
| `Registration` | `/register`, its HTTP exchange, the environment; extends `LeetoDB`; implements `Registry` |
| `Profile` | `/leetcode profile` and `updateprofile`, their exchange; extends `LeetoDB` |
| `Pager` | abstract: each user reads one list at one position |
| `SolutionPages` | menu, Solution button, its fetch, the arrows; implements `Pager` |
| `Fetch` | `dailyquestion`, `activity`, every other reply of that coroutine, the Description button, their exchanges, and the thread pool under them |
| `Bot` | `main`, crashes and restarts, `run_once` and command creation, dispatch of commands, buttons and menu, `/ping` and `/info` |
| `Coroutines` | how D++ runs a handler: the frames of one event, their promises, Discord's answers |
| `Text` | `htmlToMarkdown`, `htmlDecoder`, `removeNewLines`, `readAuthFile` against reference definitions |
| `RegistrationProofs`, `ProfileProofs`, `SolutionPagesProofs`, `FetchProofs`, `BotProofs`, `CoroutinesProofs`, `TextProofs` | theorems |
| `MCRegistration`, `MCProfile`, `MCSolutionPages`, `MCFetch`, `MCBot`, `MCCoroutines`, `MCText` | instances for TLC |

`Coroutines` justifies the step the other modules take for granted: a `co_await`
is one step because the frame goes on once, after the answer. `Bot` ends where a
handler begins; `Registration`, `Profile`, `Fetch` and `SolutionPages` begin there.

An operator whose comment begins with "Mutant of" is a plausible bug in the
definition that follows it. No specification uses it; it is put in place of that
definition to see that a property notices.

### How state and actions correspond to the code

**A step.** Local computation between two accesses to shared state is one step.
A SQL statement is a step, because the server runs statements one at a time; a
method of two statements is two. A `co_await` of a Discord call is a step: the
coroutine goes on once Discord has taken or refused it. A call to Discord that is not awaited
is in flight (`late`, `thinking`, `edit`) until a step of its own, at any later
time, in any order. An HTTP exchange is a little machine per command (`http`),
whose completion may be any outcome the code tells apart.

**LeetoDB.** `users` is a set of rows. `row` stands for the row's own identity, so
that two rows with equal columns are two. The ten statistics columns only
`updateProfile` writes are one field; `NoStats` is NULL. Every method catches
`sql::SQLException`, so each read includes the value it returns in that case,
and an INSERT or UPDATE may raise before or after the server has it. A read
matching several rows returns any of them. `UniqueDiscordId` says whether the
schema, which is not in the repository, declares `discord_id` UNIQUE.

**Registration.** `pc[c]` follows `handle_registry_commands` line by line:
`begin` (3), `dispatch` (11), `lookup` (30), `select` (38), `fetch` (44),
`await` (54), `count` and `insert` (inside `registerUser`), `reply` (the awaited
edit). `promise[c]` is the shared state of promise and future, which takes one
value; `Callback` is the lambda at line 51. A bio is the set of names whose
verification tag it carries. `Edit` is Discord taking an edit; the handler never
looks whether it did, so `Begin`, `Reply` and `LateEdit` may be refused as well
(`answer` says "refused" then). While a command runs its response is `pending`,
whether it says "thinking" or "Registering user...". The response that has no `matchedUser` calls the
callback three times; the second and third raise, which is why `HttpNotFound`
sets the promise once.

**Profile.** The coroutine returns when the request is sent, and the exchange
goes on alone: `sent`, `backoff`, `check` and `update` (the two statements of
`updateProfile`). `retry_count` is captured by reference to a parameter of a call
that has returned, so whether a 429 is retried is a free choice. An account's
statistics are a number that grows, to tell old from new. Edits are taken or refused
as in `Registration`, and "thinking" and "Fetching.." are both `pending`. `/register` is here one
atomic step; that this is what it comes to is `ImplementsRegistry` of
`Registration`.

**SolutionPages.** The three maps are functions of the user; `operator[]` of a
missing key gives the empty list and page 0. `StoreList` and `ResetPage` are the
two writes of `API` 625-626. An arrow is `PressArrow` (the read in the condition),
`Load` (the read of `++` or `--`: C++ lets the compiler keep the first value or
read again), `Store`, `Render`. `orderly[u]` is a history variable: no two
accesses to the maps of `u` overlapped since the last list that was stored
undisturbed. The unsigned comparison is in `MayTurn`.

**Fetch.** `at[r]` is where an interaction stands. `event`, `resume` and `arrived`
wait for a thread (`Take`); `handler`, `coroutine`, `completion` and `asleep` keep
one, the last because the fetchers sleep in the completion itself (`API` 429, 524,
752; 236 and 665, in `Profile` and `SolutionPages`, are alike). Slash commands
suspend on their `thinking()` (`Begin`); the button posts it and goes on
(`Describe`). The pool's queue does not keep the order of equal jobs, so any
waiting job may be taken. `retry_count` is read through a reference to a parameter
of a call that is over, so whether there are retries left is free.
`fetchLeetCodeActivity` also calls itself through such a reference to `bot`
(`RetryCrashes`). Discord refuses an edit of a response that is not there, or one
too long, and gives up an interaction after three seconds (`Expire`).

**Bot.** `main` starts the process behind a connected database or leaves with an
error; `Crash` ends it. `run_once` is `std::exchange` on a plain `bool`, so two
ready handlers may interleave its read (`RunOnceRead`) and its write
(`RunOnceWrite`); `raced` remembers that they did. Discord offers what an earlier
process created until `Create` replaces it, which is why a `Retired` command may
arrive. Nobody looks at the answers to `co_thinking` and to the edits, so the
coroutine goes on when they are `refused`.

**Coroutines.** Frame 0 is the router's job, frames 1 to `Depth` are tasks, the last
of which makes the calls. `flags[p]` is `promise_base::state`; `await_ready`,
`await_suspend` (`fetch_or`), `await_resume` (`fetch_and`), `cleanup` and `cancel`
(`~task`), `return_void` and `final_suspend` keep the library's names and are one
operation on the flags each. What the library leaves undefined is a `fault`, after
which nothing is said. `overtaken` remembers that an answer came while a frame was
still awake. An exception ends a task as a value does; a job that rethrows what its handler
threw to whoever resumed it (`coro/job.h` 114) is left out. The operations are taken in one order
that all threads see: they are locked instructions on the platform the library is
built for.

**Text.** A text is a sequence of tokens; one that the code looks for is a token
of its own. `Scan` is how all of this code reads a text: from left to right, at
each place something is put out and the reading goes on further right. A regular
expression is the matches it has (`Literal`, `Tag`, `Bare`), and `regex_replace`
and `htmlDecoder` are the same scan with other matches (`Replace`). `readAuthFile`
goes through the lines with `After`, the body of its loop. The inputs are written
down before the code sees them: a problem in marks (`Html`), a solution in strokes
(`Typed`). Three ticks in a row are the stroke "fence" and a backslash and an n, an
r or a t the strokes "newline", "return" and "tab", so that a solution is written in
one way (`Written`); every text of these tokens can be written so. The reference
definitions say what the code does where that is not what a reader might wish:
`removeNewLines` makes a control character of the escape in whatever word it stands
(the backslash and t of a `\times`), and names every fence no word follows, closing
ones too; `htmlToMarkdown` turns `<code>` but not `<code class=..>` into a backtick.
So "every problem" below is one whose HTML is written by `Html`: text, the six
entities, tags without attributes, and images.

## 3. Runs

| Run | Instance | Question |
|---|---|---|
| `reg` | 2 commands, 1 user, 1 name, 2 accounts, 1 crash; no overlap, no UNIQUE | Do a user's commands make one row at most, verified, and answers that are true and stand, and is every future kept? |
| `reg_live` | 2 commands, 1 user, 1 account, no overlap, UNIQUE, 1 crash, fairness | Is every command answered, or its answer refused? |
| `reg_overlap` | 2 overlapping commands, 1 user, 1 name, 2 accounts, UNIQUE | Is registering one atomic verified link, made once? |
| `pages` | 2 users, 2 messages, 2 arrow threads, lists of 0..2, 1 restart | Are pages in bounds, does disorder end, and can a user turn another's page? |
| `profile` | 2 commands, 2 users, 2 accounts, 2 statistics, 1 crash | Own profile, with statistics that never go back? |
| `profile_overlap` | 2 commands, 2 users, 2 names, 2 accounts, 2 statistics, overlap, renames, 1 crash | Are the statistics genuine, and can a refresh move a link? |
| `profile_stranger` (violated) | 2 commands, 2 users, 3 names, 2 accounts, renames | Do the statistics under an account's name come from a row of that account? |
| `fetch` | 2 interactions, 1 thread, fairness | One answer each, after its `thinking()`? Does a coroutine ever wait for a call that is over? Does a pool that sleeps wake? |
| `fetch_button` (violated) | 2 interactions, 1 thread | Does Discord wait for the fetch of the Description button? |
| `coro` | 3 nested tasks, 3 calls, fairness | Does each frame go on once, is every one woken, does it end and leave nothing behind? |
| `bot` | 2 ready events, 1 interaction, 2 starts, fairness | Created once and never forgotten, offered, handled once, ended? |
| `text` | problems of up to 4 marks, solutions of up to 5 strokes, files of up to 2 lines of 3 tokens | Do the transformations agree with their reference definitions? |

**Why these bounds are enough to be interesting.** Every race in this code is
between two processes at most: two commands of a user, a command and its own
completion, two threads of one user, or a thread and a completion. A second
account lets a user register twice under different accounts, which is what makes a
second INSERT show in the refinement (`reg_overlap`); besides the names of
a run a Discord member may have none, so one name is a rename already. Lists of 0,
1 and 2 solutions have no page, one page and both ends. One crash covers each
point once. One thread for two interactions is a pool that one sleeper exhausts.
Three tasks are what lies between the router and a handler; three calls are what
its longest reply takes. A ready event of a second shard is the second ready
handler; a second start meets what the first one left with Discord. Four marks
hold an escaped tag inside a tag, five strokes two fences with a word between. The
proofs below lift the safety properties off these bounds.

Bounds that exist for TLC only: `MaxCrashes`, `MaxRestarts`, `MaxStarts` and
`MaxDrift`. Overlapping presses can push a page arbitrarily far off its list, in
both directions; `MaxDrift` stops presses once the page is that far past the
longest list. The theorems hold for every value of the four.

Commands overlap in `reg_overlap` alone of the runs of `Registration`, without a crash
there, and one after the other in `reg` and `reg_live` with one: both together are
what `Refinement` and `UsersAreUnique` prove.

Deadlock is checked in the runs of `Registration` and `SolutionPages`, and in
`profile_stranger` and `profile_overlap`. Elsewhere the system really stops: no
renames, an account that has solved everything and all commands over (`profile`);
all interactions over (`fetch`, `fetch_button`); the event over or a fault (`coro`);
the bot stopped for the last time (`bot`); the text read (`text`).

Symmetry is used for users, commands, messages, threads, names and accounts,
which no module orders or names, and not in the runs with liveness.

**Fairness.** `reg_live`: weak fairness of each command's coroutine, of its
completion, of its retry thread and of its posted edit, and of nothing else. The
pool runs what is runnable; D++ completes every request, after `request_timeout`
with an error at the latest; a sleep ends; Discord takes or refuses what was posted.
Neither
the bot's start, nor renames, nor bio edits are fair.

`fetch`: the same, and weak fairness of each waiting job getting a thread once one
is free (`Take`). `Answered` is conditional: LeetCode must not limit somebody for
ever, since nothing in the code bounds the retries of `activity`, and an
interaction whose member is not cached, or whose process died, is `lost`. `coro`:
weak fairness of `Next`, that is, the machine runs and Discord answers. `bot`:
weak fairness of each ready handler and each interaction; neither starts nor
crashes nor users are fair.

### What the violated runs show

* `profile_stranger`: statistics are looked up by Discord name and titled with the
  account found by Discord id. Both users are registered, to two accounts. User 2's
  `updateprofile` fills user 2's row, which keeps the name user 2 has then. User 2
  takes another name, user 1 takes the one left, and `profile` finds user 2's row by
  it: user 1 is shown user 2's statistics under the name of user 1's account.
* `fetch_button`: the comment "so discord waits for fetch"
  (`handlers/LeetCodeButtonHandlers.cpp` 27) describes an order the code does not
  make: `event.thinking()` is posted and not awaited, and the fetch starts at once.
  The edit with the answer may reach Discord first; it is refused, and the message
  says "thinking" for good. The Solution button is alike; the slash commands await
  theirs, and `SlashEditsLand` holds of them.

### Conditions that the passing properties state

The following hold only under a condition, which is part of the property or of the
run, and the models do leave it:

* One row per user takes UNIQUE in the schema or commands that do not overlap: with
  neither, `registerUser`'s check (`DB` 50) is overtaken by another thread's INSERT.
* `statsExist`, an "existence method (check if in db)" (`include/LeetoDB.h` 37), is
  true when no row has the name (`DB` 118); a renamed user gets an error where a fetch
  would have repaired the row.
* `SoundUnlessOvertaken`: an answer that comes while a caller is still on its way to
  its `co_await` can make a task resume a caller that has gone on by itself
  (`coro/task.h` 418), or free a promise that `~task` is about to write to (`task.h`
  117, 426). Both faults are reached by `Coroutines`; `CallResumesOnce` holds without
  the condition. It takes an answer of Discord quicker than a few instructions.
* `OnceUnlessRaced`: two ready handlers that overlap may both find `run_once`'s flag
  unset, and both create the commands, to the same end.

## 4. Proofs

All for arbitrary sets of users, names, accounts, commands, messages and threads
and any number of crashes, threads, nested tasks and calls, from the named
assumptions `DBAssumption`, `RegAssumption`, `ProfileAssumption`, `PagesAssumption`,
`FetchAssumption`, `CoroutinesAssumption`, `BotAssumption` and `TextAssumption`
(dummy values are not real ones, bounds are naturals, flags are Booleans,
interactions are finitely many, texts are sequences of strings and solutions
`Written`).

**Registration.** `TypeCorrect`, `RequestsAreBounded`, `RegistrationIsVerified`,
`AnswersAreTruthful`, `SuccessIsFinal`, and all of the invariant behind them
(`InvariantHolds`); and, where the schema is UNIQUE or a user's commands do not
overlap (`Keyed`), `UsersAreUnique` and `Refinement`. That an inserted row was
verified is not inductive by itself: the insert uses a name read long before. The
invariant says what a suspended coroutine knows and that it stays true
(`KnowledgeInv`): its name was borne at some time, the tags in its promise were
published at some time, and past the check its name is among those tags. The
histories only grow, so neither rename nor edit disturbs it. `UniqueInv` adds that
without overlap one command per user is active, so a user counted as absent is
still absent at the INSERT. For the refinement, an INSERT maps to `Register`, a
rename or edit to `Publish`, all else to a stutter. `SuccessIsFinal` rests on
`StandInv`: a promise is set once, an un-awaited edit belongs to a promise set to
nothing, and a command that succeeds has one set to a bio, so no edit of "not
found" is left to replace its answer. `FutureIsKept`: a coroutine that waits has its
promise set or an exchange that runs, by which no status, body or retry leaves it
waiting for ever.

**Profile.** `TypeCorrect`, `StatsAreGenuine`, `LinksAreStable` with no condition
on overlap or renames; `StatsOnlyGrow` without overlap; `OwnProfileShown` without
renames. `IInv` says one row per user under the user's key, that a command past
its select knows the account its user is linked to (so the UPDATE rewrites the
link by itself), and that a response is never ahead of its account. `FreshInv`
says that without overlap nothing writes a user's row while a response waits.
`InvInvariant` is all of it. `OwnInv` says that without renames the three copies
of a name agree and a row that was seen to have statistics keeps them until it is
loaded.

**SolutionPages.** `TypeCorrect`, `PagesStayInBounds`, `RendersStayInBounds`,
`OnlyOwnersTurn`, `Refinement`. The invariant (`InvHolds`; its core is
`OrderInv`): an orderly user has at most one access under way, and what the thread
that turns the page has read and checked still holds. Unordered users are left to
do anything, and a list stored undisturbed makes them orderly again.

**Fetch.** `TypeCorrect`, `OneAnswer`, `SlashAnswersLand`, from `FetchInvariant`:
a slash command past its `thinking()` has a response Discord has settled, so no
edit of it can come before. `NobodyIsForgotten`: what a coroutine awaits is on its
way to Discord, and a refusal wakes it too.

**Coroutines.** `CallsResumeOnce`, `SoundWhenNotOvertaken`,
`NeverAwaitedAndBroken`, `EventIsKept`, for every depth and number of calls, from
`CoroInvariant`. It ties the flags of a promise to where the frames on both sides
of it stand (`Link`), says that a frame that has its value is above tasks that
have theirs (`Over`), and that until an answer overtakes a caller one frame runs
at a time (`OneAwake`), which is why the library's separate operations on the
flags do no harm then. `WakeupsArrive` needs more than a step: if nothing runs and
Discord owes nothing, the links say that every frame is there, that the last one
has ended, and that a frame ends with the one below it (`AllEnded`, by a least
frame); and a frame that is done and broken is freed. It holds however an answer
overtakes, as long as there is no fault.

**Bot.** `BotInvariant` and `CreatedOnce`: handlers that do not overlap find the
flag set once a creation was posted. `CommandsAreAsked`, with or without overlap: a
flag that is set is one behind which a creation is under way, was answered or was
refused, whichever process posted it. `OneHandler` and `WhoIsThereIsAnswered`: an
interaction's state changes by its own steps only (`Served`).

**Text.** `ProblemShown`, `SolutionShown` and `CredentialsKept`, for marks, strokes and
files of any length. The steps of the specification are short and the work is in what the
recursive functions compute. That takes induction, which the library's theorems
offer for an operator only; here it is done on sets: a set of numbers with 0 and,
with each number, the next has all numbers (`Induction`, from the least element that
`WFMin` gives). From it follow that a scan exists and is what its equation says
(`ScanExists`, `ScanDef`), that the joining of sequences is what `FlattenSeq` gives
(`JoinsExist`, `FlattenIsJoin`), and that a configuration exists for each number of
lines (`ConfigExists`).

A text is then seen as the joining of pieces, one per mark or stroke. `Pass` says: if
each piece is either a match, of which the replacement is the new piece, or free of
the beginning of one, then one replacement turns the joining of the old pieces into
the joining of the new. `LiteralPass`, `TagStage` and `DecodeStage` are its instances
for words, tags and entities, and `Described` is their chain: after each stage a mark
stands as one known piece (`HtmlTypes`, `StageTypes`). That a literal matches nothing
across two pieces is where the order of the code's stages matters: an escaped "<"
begins no tag since it is still an entity when tags are stripped, and what was
decoded is behind the scan. Solutions take a pass per escape and one for the fences
(`EscapePasses`, `FencePass`): a backslash or a tick of its own begins no match because
the solution is `Written`, and `NextPiece` says which token the look-ahead meets. For
the credentials the
invariant of the loop is `Says`: the map has, for each key, the rest of the last line
so far that gives it a value; `SplitOf` shows that a line that begins with a key and
an equals sign is split there, whatever follows.

**Only model-checked.** The liveness properties (`CommandsAnswered`, `PoolRecovers`,
`Answered`, `EventEnds`, `CommandsOffered`, `InteractionsEnd`): fairness is about
ENABLED, which the prover does not take. What their truth rests on besides fairness,
that nothing waits for what will not come, is proved: `FutureIsKept`,
`NobodyIsForgotten`, `WakeupsArrive`, `CommandsAreAsked`. (Runs check
`NobodyForgotten` and `CommandsAsked` as parts of `FetchInv` and `BotInv`.) That `Bot`'s and `Fetch`'s
steps make progress, and that the pool gives a thread back, is TLC's. Two properties
do not hold and are those of the violated runs (`ProfileIsOwn`,
`DiscordWaitsForFetch`). No module declares a RECURSIVE operator.

## 5. Not modelled

* The library. 98 of 100 lines in `src/` are D++'s vendored headers: the JSON library
  (25,000 lines), the emoji table (6,000), declarations of the cluster, the gateway's
  messages and Discord's objects, with the implementation in a binary that is not
  here. They hold no control flow of this program. What it does depend on, the
  router's job, tasks, promises and the pool, is in `Coroutines` and `Fetch`. So the
  share of all lines the models stand for stays small, while the program's own 1,767
  lines are modelled but for the items below.
* Memory corruption by unsynchronised access to the `unordered_map`s
  (`PerUserPage.cpp` 4) and to the one connection (`include/LeetoDB.h` 43). Their
  element accesses and statements are taken as whole; concurrent use of the connection
  reads as the exception a statement may raise.
* That a failure is always shown: `API` 528 puts the body of an error response into
  the edit, which Discord may refuse for its length (`Fail`, `TakeEdit`). The steps
  are in `Fetch`; no property asks for more than the code promises.
* The wording and layout of messages, the queries and headers sent to LeetCode, and
  which JSON field is missing when one is.
* `getLeetcodeAvatar`, `make_promise` and other code nothing calls.
* The MySQL connector, Discord and LeetCode are assumptions, not models.

## 6. Plan

**Done:** `LeetoDB`, `Registry`, `Registration`; `Pager`, `SolutionPages`;
`Profile`; `Fetch`; `Bot`; `Coroutines`; `Text`; and the proofs of all their safety
properties, action properties and refinements.

Left: Registration and Profile over one table, with the real two-statement
registration in place of `Profile`'s atomic one. `ImplementsRegistry` already says
that the one comes to the other where a user has one row.
