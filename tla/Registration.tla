--------------------------- MODULE Registration ---------------------------
(***************************************************************************)
(* The /register user command: the coroutine handle_registry_commands, the *)
(* HTTP exchange fetchLeetCodeDescription it waits for, and the users      *)
(* table it writes.                                                        *)
(*                                                                         *)
(* Each command is a process.  A `co_await` of a Discord call is one step: *)
(* the handler goes on only once Discord has taken the call or refused it, *)
(* and never looks which.  A call that is NOT awaited                      *)
(* (event.edit_response in the HTTP completion) is in flight (`late`)      *)
(* until Discord takes or refuses it, at any later moment.  Between        *)
(* two steps of one command anything else may run: other commands on other *)
(* pool threads, the HTTP completion, the detached retry thread, a crash   *)
(* of the bot, a user renamed on Discord, a profile edited on LeetCode.    *)
(***************************************************************************)
EXTENDS LeetoDB

CONSTANTS
  Commands,     \* /register interactions; each is the key of the row it inserts
  NoName,       \* the empty username
  Overlap,      \* may one user have two /register commands running at once?
  MaxCrashes    \* bound on crashes, for TLC

ASSUME RegAssumption ==
  /\ Commands \subseteq Keys
  /\ NoName \notin Names
  /\ Overlap \in BOOLEAN
  /\ MaxCrashes \in Nat

MaxRetries == 3

\* What the promise may hold: nothing yet, std::nullopt, or a bio, of which
\* only the verification tags in it matter.
Unset      == [is |-> "unset",   tags |-> {}]
NoDesc     == [is |-> "nullopt", tags |-> {}]
Desc(tags) == [is |-> "desc",    tags |-> tags]

VARIABLES
  username,   \* Discord: the name of each member, as the bot's cache has it
  aboutMe,    \* LeetCode: the names whose verification tag a bio carries
  user, account, subcommand,    \* what each command asks, fixed from the start
  pc,         \* where the coroutine of a command stands
  name,       \* its local `username`
  answer,     \* the text of its last edit; "refused" if Discord refused that edit
  http,       \* the HTTP exchange: none, sent, backoff (retry thread) or over
  retry,      \* retry_count
  promise,    \* the state std::promise and std::future share
  shown,      \* Discord: what the response to the interaction says
  late,       \* Discord: a "not found on LeetCode" edit is in flight
  crashes,
  published,  \* history: <<account, name>> tags that some bio ever carried
  named,      \* history: <<user, name>> pairs that were ever true
  requests    \* history: HTTP requests sent for a command

dbVars  == <<users, connected>>
envVars == <<username, aboutMe, published, named>>
reqVars == <<user, account, subcommand>>
netVars == <<http, retry, promise, requests>>
vars == <<dbVars, envVars, reqVars, netVars, pc, name, answer, shown, late,
          crashes>>

Final == {"success", "failed", "already", "fetch_failed", "not_verified",
          "no_username", "error", "no_subcommand", "not_found"}

Active == {"begin", "dispatch", "lookup", "select", "fetch", "await",
           "count", "insert", "reply"}

TypeOK ==
  /\ DBTypeOK
  /\ username \in [Users -> Names \cup {NoName}]
  /\ aboutMe \in [Accounts -> SUBSET Names]
  /\ user \in [Commands -> Users]
  /\ account \in [Commands -> Accounts]
  /\ subcommand \in [Commands -> {"user", "other"}]
  /\ pc \in [Commands -> Active \cup {"idle", "done", "lost"}]
  /\ name \in [Commands -> Names \cup {NoName}]
  /\ answer \in [Commands -> Final \cup {"none", "refused"}]
  /\ http \in [Commands -> {"none", "sent", "backoff", "over"}]
  /\ retry \in [Commands -> 0 .. MaxRetries]
  /\ promise \in [Commands -> [is : {"unset", "nullopt", "desc"},
                            tags : SUBSET Names]]
  /\ shown \in [Commands -> Final \cup {"none", "pending"}]
  /\ late \in [Commands -> BOOLEAN]
  /\ crashes \in 0 .. MaxCrashes
  /\ published \subseteq Accounts \X Names
  /\ named \subseteq Users \X Names
  /\ requests \in [Commands -> Nat]

NamePairs(f) == {<<u, f[u]>> : u \in Users} \cap (Users \X Names)

Init ==
  /\ DBInit
  /\ username \in [Users -> Names]
  /\ aboutMe = [a \in Accounts |-> {}]
  /\ user \in [Commands -> Users]
  /\ account \in [Commands -> Accounts]
  /\ subcommand \in [Commands -> {"user", "other"}]
  /\ pc = [c \in Commands |-> "idle"]
  /\ name = [c \in Commands |-> NoName]
  /\ answer = [c \in Commands |-> "none"]
  /\ http = [c \in Commands |-> "none"]
  /\ retry = [c \in Commands |-> 0]
  /\ promise = [c \in Commands |-> Unset]
  /\ shown = [c \in Commands |-> "none"]
  /\ late = [c \in Commands |-> FALSE]
  /\ crashes = 0
  /\ published = {}
  /\ named = NamePairs(username)
  /\ requests = [c \in Commands |-> 0]

-----------------------------------------------------------------------------
(* The coroutine. *)

Step(c, from, to) ==
  /\ pc[c] = from
  /\ pc' = [pc EXCEPT ![c] = to]

\* `co_await event.co_edit_original_response(text); co_return`, first half.
ReplyWith(c, from, text) ==
  /\ Step(c, from, "reply")
  /\ answer' = [answer EXCEPT ![c] = text]

\* Discord delivers the interaction to a pool thread of the running bot.
Issue(c) ==
  /\ connected
  /\ Overlap \/ \A d \in Commands : user[d] = user[c] => pc[d] \notin Active
  /\ Step(c, "idle", "begin")
  /\ UNCHANGED <<dbVars, envVars, reqVars, netVars, name, answer, shown, late,
                 crashes>>

\* Discord takes an edit if there is a response to edit.
Edit(c, text) ==
  /\ shown[c] # "none"
  /\ shown' = [shown EXCEPT ![c] = text]

\* co_await event.co_thinking(), which Discord may refuse
Begin(c) ==
  /\ Step(c, "begin", "dispatch")
  /\ \/ shown' = [shown EXCEPT ![c] = "pending"]
     \/ UNCHANGED shown
  /\ UNCHANGED <<dbVars, envVars, reqVars, netVars, name, answer, late, crashes>>

\* The edit "Registering user..." leaves the response pending, taken or refused.
Dispatch(c) ==
  /\ \/ /\ subcommand[c] = "user"
        /\ Step(c, "dispatch", "lookup")
        /\ UNCHANGED answer
     \/ /\ subcommand[c] # "user"
        /\ ReplyWith(c, "dispatch", "no_subcommand")
  /\ UNCHANGED <<dbVars, envVars, reqVars, netVars, name, shown, late, crashes>>

\* dpp::find_guild_member, which throws cache_exception when the guild or the
\* member is not cached.
Lookup(c) ==
  /\ \/ /\ ReplyWith(c, "lookup", "error")
        /\ UNCHANGED name
     \/ /\ username[user[c]] = NoName
        /\ ReplyWith(c, "lookup", "no_username")
        /\ UNCHANGED name
     \/ /\ username[user[c]] # NoName
        /\ name' = [name EXCEPT ![c] = username[user[c]]]
        /\ Step(c, "lookup", "select")
        /\ UNCHANGED answer
  /\ UNCHANGED <<dbVars, envVars, reqVars, netVars, shown, late, crashes>>

\* Is the account the one this user has registered already?
Select(c) ==
  /\ \E registered \in LeetcodeUsername(user[c]) :
       \/ /\ account[c] = registered
          /\ ReplyWith(c, "select", "already")
       \/ /\ account[c] # registered
          /\ Step(c, "select", "fetch")
          /\ UNCHANGED answer
  /\ UNCHANGED <<dbVars, envVars, reqVars, netVars, name, shown, late, crashes>>

\* fetchLeetCodeDescription(..., 0, promise), then co_await AwaitableFuture.
Fetch(c) ==
  /\ Step(c, "fetch", "await")
  /\ http' = [http EXCEPT ![c] = "sent"]
  /\ retry' = [retry EXCEPT ![c] = 0]
  /\ requests' = [requests EXCEPT ![c] = @ + 1]
  /\ UNCHANGED <<dbVars, envVars, reqVars, promise, name, answer, shown, late,
                 crashes>>

\* Mutant of HasVerification: any bio will do.
HasBio(c) == promise[c] # NoDesc

HasVerification(c) == name[c] \in promise[c].tags

\* The detached thread of AwaitableFuture resumes the coroutine.
Resume(c) ==
  /\ promise[c] # Unset
  /\ \/ /\ promise[c] = NoDesc
        /\ ReplyWith(c, "await", "fetch_failed")
     \/ /\ promise[c] # NoDesc
        /\ ~HasVerification(c)
        /\ ReplyWith(c, "await", "not_verified")
     \/ /\ promise[c] # NoDesc
        /\ HasVerification(c)
        /\ Step(c, "await", "count")
        /\ UNCHANGED answer
  /\ UNCHANGED <<dbVars, envVars, reqVars, netVars, name, shown, late, crashes>>

\* db.registerUser, its SELECT COUNT(*): a row, or an exception, is FALSE.
Count(c) ==
  /\ \/ /\ CountIsZero(user[c])
        /\ Step(c, "count", "insert")
        /\ UNCHANGED answer
     \/ ReplyWith(c, "count", "failed")
  /\ UNCHANGED <<dbVars, envVars, reqVars, netVars, name, shown, late, crashes>>

\* Mutant of RowFor: the name is read again when the row is made.
RowForNewName(c) ==
  [row |-> c, discord_id |-> user[c], discord_username |-> username[user[c]],
   leetcode_username |-> account[c], stats |-> NoStats]

RowFor(c) ==
  [row |-> c, discord_id |-> user[c], discord_username |-> name[c],
   leetcode_username |-> account[c], stats |-> NoStats]

\* Mutant of Insert: an exception counts as a success.
InsertAlwaysTrue(c) ==
  /\ InsertRow(RowFor(c)) \/ UNCHANGED dbVars
  /\ ReplyWith(c, "insert", "success")
  /\ UNCHANGED <<envVars, reqVars, netVars, name, shown, late, crashes>>

\* db.registerUser, its INSERT.  The exception may come before the server has
\* the row, because it refuses the row, or after (the connection broke).
Insert(c) ==
  /\ \/ /\ InsertRow(RowFor(c))
        /\ ReplyWith(c, "insert", "success")
     \/ /\ InsertRow(RowFor(c))
        /\ ReplyWith(c, "insert", "failed")
     \/ /\ ReplyWith(c, "insert", "failed")
        /\ UNCHANGED dbVars
  /\ UNCHANGED <<envVars, reqVars, netVars, name, shown, late, crashes>>

\* Discord takes the awaited edit, or refuses it, and the coroutine returns.
Reply(c) ==
  /\ Step(c, "reply", "done")
  /\ \/ Edit(c, answer[c]) /\ UNCHANGED answer
     \/ answer' = [answer EXCEPT ![c] = "refused"] /\ UNCHANGED shown
  /\ UNCHANGED <<dbVars, envVars, reqVars, netVars, name, late, crashes>>

-----------------------------------------------------------------------------
(* The HTTP exchange: fetchLeetCodeDescription's completion, on a pool      *)
(* thread, and its detached retry thread.                                   *)

\* promise->set_value(v); a second call throws and changes nothing.
Callback(c, v) ==
  promise' = IF promise[c] = Unset THEN [promise EXCEPT ![c] = v] ELSE promise

\* The response has a bio: what it says at the moment LeetCode serves it.
HttpBio(c) ==
  /\ http[c] = "sent"
  /\ http' = [http EXCEPT ![c] = "over"]
  /\ Callback(c, Desc(aboutMe[account[c]]))
  /\ UNCHANGED <<dbVars, envVars, reqVars, retry, requests, pc, name, answer,
                 shown, late, crashes>>

\* Mutant of HttpFailed: a path that never calls the callback.
HttpForgotten(c) ==
  /\ http[c] = "sent"
  /\ http' = [http EXCEPT ![c] = "over"]
  /\ UNCHANGED <<dbVars, envVars, reqVars, retry, promise, requests, pc, name,
                 answer, shown, late, crashes>>

\* Over 100 kB, not JSON, no profile or no aboutMe, a member of another type,
\* another status, or out of retries.
HttpFailed(c) ==
  /\ http[c] = "sent"
  /\ http' = [http EXCEPT ![c] = "over"]
  /\ Callback(c, NoDesc)
  /\ UNCHANGED <<dbVars, envVars, reqVars, retry, requests, pc, name, answer,
                 shown, late, crashes>>

\* Mutant of HttpNotFound: a missing user is retried after the edit.
HttpNotFoundRetries(c) ==
  /\ http[c] = "sent"
  /\ retry[c] < MaxRetries
  /\ http' = [http EXCEPT ![c] = "backoff"]
  /\ late' = [late EXCEPT ![c] = TRUE]
  /\ UNCHANGED <<dbVars, envVars, reqVars, retry, promise, requests, pc, name,
                 answer, shown, crashes>>

\* matchedUser is null: the edit is posted, not awaited.  The code then calls
\* the callback three times with nullopt (for the missing user, for the profile
\* missing from it, and for the exception the second call raises); the third
\* exception leaves the completion.  Only the first call has an effect.
HttpNotFound(c) ==
  /\ http[c] = "sent"
  /\ http' = [http EXCEPT ![c] = "over"]
  /\ late' = [late EXCEPT ![c] = TRUE]
  /\ Callback(c, NoDesc)
  /\ UNCHANGED <<dbVars, envVars, reqVars, retry, requests, pc, name, answer,
                 shown, crashes>>

MayRetry(c) == retry[c] < MaxRetries

\* 429 or 499: a detached thread is started.
HttpRateLimited(c) ==
  /\ http[c] = "sent"
  /\ MayRetry(c)
  /\ http' = [http EXCEPT ![c] = "backoff"]
  /\ UNCHANGED <<dbVars, envVars, reqVars, retry, promise, requests, pc, name,
                 answer, shown, late, crashes>>

\* Mutant of Retry: retry_count is handed on as it is.
RetryUncounted(c) ==
  /\ http[c] = "backoff"
  /\ requests[c] < 6
  /\ http' = [http EXCEPT ![c] = "sent"]
  /\ requests' = [requests EXCEPT ![c] = @ + 1]
  /\ UNCHANGED <<dbVars, envVars, reqVars, retry, promise, pc, name, answer,
                 shown, late, crashes>>

\* It has slept, and fetches again with retry_count + 1.
Retry(c) ==
  /\ http[c] = "backoff"
  /\ http' = [http EXCEPT ![c] = "sent"]
  /\ retry' = [retry EXCEPT ![c] = @ + 1]
  /\ requests' = [requests EXCEPT ![c] = @ + 1]
  /\ UNCHANGED <<dbVars, envVars, reqVars, promise, pc, name, answer, shown,
                 late, crashes>>

\* Discord takes the edit that nobody awaits, or refuses it.
LateEdit(c) ==
  /\ late[c]
  /\ late' = [late EXCEPT ![c] = FALSE]
  /\ Edit(c, "not_found") \/ UNCHANGED shown
  /\ UNCHANGED <<dbVars, envVars, reqVars, netVars, pc, name, answer, crashes>>

-----------------------------------------------------------------------------
(* The process and its environment. *)

\* main: the bot runs only behind a connected database.
Start ==
  /\ Connect
  /\ UNCHANGED <<envVars, reqVars, netVars, pc, name, answer, shown, late, crashes>>

\* The process dies: coroutines, threads and requests go, the rows stay.
Crash ==
  /\ connected
  /\ crashes < MaxCrashes
  /\ crashes' = crashes + 1
  /\ Disconnect
  /\ pc' = [c \in Commands |-> IF pc[c] \in Active THEN "lost" ELSE pc[c]]
  /\ http' = [c \in Commands |-> "none"]
  /\ late' = [c \in Commands |-> FALSE]
  /\ UNCHANGED <<envVars, reqVars, retry, promise, requests, name, answer, shown>>

\* A member takes another Discord name, or the cache loses it.
Rename(u, n) ==
  /\ username' = [username EXCEPT ![u] = n]
  /\ named' = named \cup NamePairs(username')
  /\ UNCHANGED <<dbVars, aboutMe, published, reqVars, netVars, pc, name, answer,
                 shown, late, crashes>>

\* The owner of a LeetCode account rewrites its bio.
EditBio(a, tags) ==
  /\ aboutMe' = [aboutMe EXCEPT ![a] = tags]
  /\ published' = published \cup {<<a, n>> : n \in tags}
  /\ UNCHANGED <<dbVars, username, named, reqVars, netVars, pc, name, answer,
                 shown, late, crashes>>

Coroutine(c) ==
  \/ Begin(c) \/ Dispatch(c) \/ Lookup(c) \/ Select(c) \/ Fetch(c)
  \/ Resume(c) \/ Count(c) \/ Insert(c) \/ Reply(c)

Completion(c) ==
  HttpBio(c) \/ HttpFailed(c) \/ HttpNotFound(c) \/ HttpRateLimited(c)

Environment ==
  \/ \E u \in Users, n \in Names \cup {NoName} : Rename(u, n)
  \/ \E a \in Accounts, tags \in SUBSET Names : EditBio(a, tags)

Next ==
  \/ \E c \in Commands : Issue(c) \/ Coroutine(c) \/ Completion(c)
                         \/ Retry(c) \/ LateEdit(c)
  \/ Start
  \/ Crash
  \/ Environment

\* The pool runs what is runnable, D++ completes every request and every call of
\* Discord (it times out after request_timeout), and a sleep ends.
Fairness ==
  \A c \in Commands : /\ WF_vars(Coroutine(c))
                      /\ WF_vars(Completion(c))
                      /\ WF_vars(Retry(c))
                      /\ WF_vars(LateEdit(c))

Spec == Init /\ [][Next]_vars
FairSpec == Spec /\ Fairness

-----------------------------------------------------------------------------
(* Properties. *)

\* One Discord user never has two rows: registerUser refuses a user that has
\* one (LeetoDB.cpp:44-53).  The check and the INSERT are two statements, so
\* this rests on the schema or on commands that do not overlap.
OneRowPerUser ==
  \A r, s \in users : r.discord_id = s.discord_id => r = s

\* A row exists only for an account whose bio carried, at some time, the tag
\* of a name its user bore, whatever was renamed, edited, retried or restarted
\* while the command ran.
RegistrationVerified ==
  \A r \in users : /\ <<r.leetcode_username, r.discord_username>> \in published
                   /\ <<r.discord_id, r.discord_username>> \in named

\* "Registered successfully!" and "already been registered" are never shown
\* to a user without a row for the account asked about.
AnswersTruthful ==
  \A c \in Commands :
    shown[c] \in {"success", "already"} =>
      \E r \in users : /\ r.discord_id = user[c]
                       /\ r.leetcode_username = account[c]

\* A command sends at most 1 + 3 requests to LeetCode.
RequestsBounded == \A c \in Commands : requests[c] <= 1 + MaxRetries

\* No edit that nobody awaits lands on top of "Registered successfully!".
SuccessStands ==
  [][\A c \in Commands : shown[c] = "success" => shown'[c] = "success"]_shown

\* A coroutine that waits on its future has its promise kept, or an exchange that
\* runs and will keep it: no status, body or retry ends the exchange without.
FutureKept ==
  \A c \in Commands :
    pc[c] = "await" => promise[c] # Unset \/ http[c] \in {"sent", "backoff"}

\* A command that began is answered for good, unless the bot dies under it or
\* Discord refuses the answer: no path of the HTTP exchange leaves the coroutine
\* waiting on its future.
CommandsAnswered ==
  \A c \in Commands :
    pc[c] = "begin" ~> \/ pc[c] = "lost"
                       \/ pc[c] = "done" /\ (shown[c] \in Final \/ answer[c] = "refused")

\* The links a user of the bot sees: what the table says, row by row.
Links == {<<r.discord_id, r.leetcode_username>> : r \in users}

Abstract == INSTANCE Registry WITH registry <- Links

\* Where commands do not overlap, or the schema is UNIQUE, registering is one
\* atomic, verified, once-only link of a user to an account, whatever two commands
\* of a user for two accounts do between each other's steps.
ImplementsRegistry == Abstract!Spec

-----------------------------------------------------------------------------
(* The inductive invariant behind the safety properties. *)

\* A history never falls behind what it records.
HistoryInv ==
  /\ \A a \in Accounts : \A n \in aboutMe[a] : <<a, n>> \in published
  /\ \A u \in Users : username[u] # NoName => <<u, username[u]>> \in named

\* What a coroutine has learnt stays true while it is suspended: its name was
\* borne, the tags in its promise were published, and past the verification
\* its own name is one of them.
KnowledgeInv ==
  \A c \in Commands :
    /\ name[c] # NoName => <<user[c], name[c]>> \in named
    /\ \A n \in promise[c].tags : <<account[c], n>> \in published
    /\ pc[c] \in {"count", "insert"} => HasVerification(c)

\* Without overlap one command per user is active, so nothing can insert a row
\* for its user between its SELECT COUNT and its INSERT.
ExclusionInv ==
  ~Overlap =>
    /\ \A c, d \in Commands :
         user[c] = user[d] /\ pc[c] \in Active /\ pc[d] \in Active => c = d
    /\ \A c \in Commands : pc[c] = "insert" => RowsOf(user[c]) = {}

HasRow(c) == \E r \in users : /\ r.discord_id = user[c]
                              /\ r.leetcode_username = account[c]

\* An answer is true from the moment it is chosen.
AnswerInv ==
  \A c \in Commands :
    /\ answer[c] \in {"success", "already"} => HasRow(c)
    /\ shown[c] \in {"success", "already"} => HasRow(c)

\* Past the lookup a coroutine has a name to register its user under, and on its
\* way to the last edit it has a text.
NameInv ==
  \A c \in Commands :
    /\ pc[c] \in {"select", "fetch", "await", "count", "insert"} =>
         name[c] \in Names
    /\ pc[c] = "reply" => answer[c] \in Final

\* Every request but the first has raised retry_count.
RequestInv ==
  \A c \in Commands :
    /\ pc[c] \in {"idle", "begin", "dispatch", "lookup", "select", "fetch"} =>
         http[c] = "none" /\ requests[c] = 0
    /\ http[c] = "backoff" => MayRetry(c)
    /\ requests[c] <= retry[c] + 1

\* A promise is fulfilled once, when the exchange ends, and the edit nobody awaits
\* is in flight only if it was fulfilled with nothing; success is answered only if
\* it was fulfilled with a bio.
StandInv ==
  \A c \in Commands :
    /\ \/ pc[c] \in {"idle", "begin", "dispatch", "lookup", "select", "fetch"}
       \/ http[c] \in {"sent", "backoff"}
       => promise[c] = Unset
    /\ late[c] => promise[c] = NoDesc
    /\ pc[c] \in {"count", "insert"} \/ answer[c] = "success" =>
         promise[c] \notin {Unset, NoDesc}
    /\ shown[c] = "success" => pc[c] = "done" /\ answer[c] = "success"

BaseInv == TypeOK /\ NameInv /\ RequestInv

IInv ==
  /\ BaseInv
  /\ HistoryInv
  /\ KnowledgeInv
  /\ AnswerInv
  /\ StandInv
  /\ FutureKept
  /\ RegistrationVerified

\* Added to IInv where users are kept apart by the schema or by the commands.
UniqueInv == ExclusionInv /\ OneRowPerUser

=============================================================================
