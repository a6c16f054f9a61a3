------------------------------ MODULE Profile ------------------------------
(***************************************************************************)
(* /leetcode profile and /leetcode updateprofile: the two branches of the  *)
(* coroutine handle_leetcode_commands, the HTTP exchange                   *)
(* fetchLeetCodeProfile and the row it refreshes.                          *)
(*                                                                         *)
(* The coroutine does not wait for the exchange: it returns once the       *)
(* request is sent, and the completion writes the row and edits the        *)
(* response when LeetCode answers.  None of its edits is awaited.          *)
(*                                                                         *)
(* /register is here what Registration proves it to be: one atomic link of *)
(* a user to an account.                                                   *)
(***************************************************************************)
EXTENDS LeetoDB

CONSTANTS
  Commands,     \* interactions
  NoUser,       \* no Discord id
  Overlap,      \* may a user have two commands or fetches running at once?
  Renames,      \* do members change their Discord names?
  MaxCrashes    \* bound on crashes, for TLC

ASSUME ProfileAssumption ==
  /\ Users \subseteq Keys
  /\ NoUser \notin Users
  /\ Stats \subseteq Nat
  /\ Overlap \in BOOLEAN
  /\ Renames \in BOOLEAN
  /\ MaxCrashes \in Nat

\* What a response may say: a text, or a profile, of whose row and with what.
Says(text) == [is |-> text, of |-> NoUser, stats |-> NoStats]
Profile(u, s) == [is |-> "profile", of |-> u, stats |-> s]
Texts == {"none", "pending", "unregistered", "no_profile",
          "fetch_failed", "update_failed"}
Answers == [is : Texts \cup {"profile"}, of : Users \cup {NoUser},
            stats : Stats \cup {NoStats}]

VARIABLES
  username,   \* Discord: the name of each member
  solved,     \* LeetCode: what an account has solved by now
  user, subcommand,   \* what each command asks, fixed from the start
  pc,         \* where its coroutine stands
  name,       \* its local `usernameString`
  account,    \* its local `leetcode_username`
  answer,     \* its last edit, until Discord has taken it
  http,       \* its exchange: none, sent, backoff, check, update or over
  got,        \* the stats in the response
  shown,      \* Discord: what the response to the interaction says
  late,       \* Discord: edits in flight that nobody awaits
  crashes

dbVars  == <<users, connected>>
envVars == <<username, solved>>
reqVars == <<user, subcommand>>
coVars  == <<pc, name, account, answer>>
netVars == <<http, got, late>>
vars == <<dbVars, envVars, reqVars, coVars, netVars, shown, crashes>>

Active == {"begin", "lookup", "select", "announce", "exists", "load", "fetch",
           "reply"}
InFlight == {"sent", "backoff", "check", "update"}

TypeOK ==
  /\ DBTypeOK
  /\ username \in [Users -> Names]
  /\ solved \in [Accounts -> Stats]
  /\ user \in [Commands -> Users]
  /\ subcommand \in [Commands -> {"profile", "updateprofile"}]
  /\ pc \in [Commands -> Active \cup {"idle", "done", "lost"}]
  /\ name \in [Commands -> Names]
  /\ account \in [Commands -> Accounts \cup {NoAccount}]
  /\ answer \in [Commands -> Answers]
  /\ http \in [Commands -> InFlight \cup {"none", "over"}]
  /\ got \in [Commands -> Stats \cup {NoStats}]
  /\ shown \in [Commands -> Answers]
  /\ late \in [Commands -> SUBSET Answers]
  /\ crashes \in 0 .. MaxCrashes

\* Discord keeps names unique.
Distinct(f) == \A u, v \in Users : f[u] = f[v] => u = v

Init ==
  /\ DBInit
  /\ username \in {f \in [Users -> Names] : Distinct(f)}
  /\ solved \in [Accounts -> Stats]
  /\ user \in [Commands -> Users]
  /\ subcommand \in [Commands -> {"profile", "updateprofile"}]
  /\ pc = [c \in Commands |-> "idle"]
  /\ name = [c \in Commands |-> username[user[c]]]
  /\ account = [c \in Commands |-> NoAccount]
  /\ answer = [c \in Commands |-> Says("none")]
  /\ http = [c \in Commands |-> "none"]
  /\ got = [c \in Commands |-> NoStats]
  /\ shown = [c \in Commands |-> Says("none")]
  /\ late = [c \in Commands |-> {}]
  /\ crashes = 0

-----------------------------------------------------------------------------
(* The coroutine. *)

Step(c, from, to) ==
  /\ pc[c] = from
  /\ pc' = [pc EXCEPT ![c] = to]

ReplyWith(c, from, ans) ==
  /\ Step(c, from, "reply")
  /\ answer' = [answer EXCEPT ![c] = ans]

Running(c) == pc[c] \in Active \/ http[c] \in InFlight

Issue(c) ==
  /\ connected
  /\ Overlap \/ \A d \in Commands : user[d] = user[c] => ~Running(d)
  /\ Step(c, "idle", "begin")
  /\ UNCHANGED <<dbVars, envVars, reqVars, name, account, answer, netVars, shown,
                 crashes>>

\* Discord takes an edit, or refuses it; without a response it always refuses.
Edit(c, ans) ==
  \/ /\ shown[c] # Says("none")
     /\ shown' = [shown EXCEPT ![c] = ans]
  \/ UNCHANGED shown

\* co_await event.co_thinking(), which Discord may refuse
Begin(c) ==
  /\ Step(c, "begin", "lookup")
  /\ \/ shown' = [shown EXCEPT ![c] = Says("pending")]
     \/ UNCHANGED shown
  /\ UNCHANGED <<dbVars, envVars, reqVars, name, account, answer, netVars, crashes>>

\* dpp::find_guild_member may throw; no handler catches it, and the coroutine
\* ends without an answer.
Lookup(c) ==
  /\ \/ /\ Step(c, "lookup", "select")
        /\ name' = [name EXCEPT ![c] = username[user[c]]]
     \/ /\ Step(c, "lookup", "lost")
        /\ UNCHANGED name
  /\ UNCHANGED <<dbVars, envVars, reqVars, account, answer, netVars, shown, crashes>>

Select(c) ==
  /\ \E registered \in LeetcodeUsername(user[c]) :
       \/ /\ registered = NoAccount
          /\ ReplyWith(c, "select", Says("unregistered"))
          /\ UNCHANGED account
       \/ /\ registered # NoAccount
          /\ account' = [account EXCEPT ![c] = registered]
          /\ \/ subcommand[c] = "profile" /\ Step(c, "select", "announce")
             \/ subcommand[c] = "updateprofile" /\ Step(c, "select", "fetch")
          /\ UNCHANGED answer
  /\ UNCHANGED <<dbVars, envVars, reqVars, name, netVars, shown, crashes>>

\* co_await of the edit "Fetching your LeetCode Profile...", which leaves the
\* response pending, taken or refused.
Announce(c) ==
  /\ Step(c, "announce", "exists")
  /\ UNCHANGED <<dbVars, envVars, reqVars, name, account, answer, netVars, shown,
                 crashes>>

Exists(c) ==
  /\ \/ TRUE \in StatsExist(name[c]) /\ Step(c, "exists", "load")
     \/ FALSE \in StatsExist(name[c]) /\ Step(c, "exists", "fetch")
  /\ UNCHANGED <<dbVars, envVars, reqVars, name, account, answer, netVars, shown,
                 crashes>>

\* A row with NULL columns reads as zeroes and empty strings.
Load(c) ==
  /\ \E profile \in LeetcodeProfile(name[c]) :
       \/ profile = {} /\ ReplyWith(c, "load", Says("no_profile"))
       \/ \E r \in profile :
            ReplyWith(c, "load", Profile(r.discord_id, r.stats))
  /\ UNCHANGED <<dbVars, envVars, reqVars, name, account, netVars, shown, crashes>>

\* fetchLeetCodeProfile(..); the coroutine returns.
Fetch(c) ==
  /\ Step(c, "fetch", "done")
  /\ http' = [http EXCEPT ![c] = "sent"]
  /\ UNCHANGED <<dbVars, envVars, reqVars, name, account, answer, got, late, shown,
                 crashes>>

\* The awaited edit is taken or refused, and the coroutine returns.
Reply(c) ==
  /\ Step(c, "reply", "done")
  /\ Edit(c, answer[c])
  /\ UNCHANGED <<dbVars, envVars, reqVars, name, account, answer, netVars, crashes>>

-----------------------------------------------------------------------------
(* The HTTP exchange. *)

Exchange(c, from, to) ==
  /\ http[c] = from
  /\ http' = [http EXCEPT ![c] = to]

Post(c, edits) == late' = [late EXCEPT ![c] = @ \cup edits]

\* Mutant of HttpProfile: the query names another account.
HttpAnyProfile(c) ==
  /\ Exchange(c, "sent", "check")
  /\ \E a \in Accounts : got' = [got EXCEPT ![c] = solved[a]]
  /\ UNCHANGED <<dbVars, envVars, reqVars, coVars, late, shown, crashes>>

\* LeetCode serves the profile of the account as it is now.
HttpProfile(c) ==
  /\ Exchange(c, "sent", "check")
  /\ got' = [got EXCEPT ![c] = solved[account[c]]]
  /\ UNCHANGED <<dbVars, envVars, reqVars, coVars, late, shown, crashes>>

\* Mutant of HttpFailed: a `return` is missing, and an empty profile is written.
HttpFallsThrough(c) ==
  /\ Exchange(c, "sent", "check")
  /\ got' = [got EXCEPT ![c] = NoStats]
  /\ Post(c, {Says("fetch_failed")})
  /\ UNCHANGED <<dbVars, envVars, reqVars, coVars, shown, crashes>>

\* No such user, no stats, no profile, not JSON, another status, out of retries.
HttpFailed(c) ==
  /\ Exchange(c, "sent", "over")
  /\ Post(c, {Says("fetch_failed")})
  /\ UNCHANGED <<dbVars, envVars, reqVars, coVars, got, shown, crashes>>

\* 429.  The completion compares a retry_count that went out of scope with the
\* call that took it: it may read anything, so it may retry any number of times.
HttpRateLimited(c) ==
  /\ Exchange(c, "sent", "backoff")
  /\ UNCHANGED <<dbVars, envVars, reqVars, coVars, got, late, shown, crashes>>

Retry(c) ==
  /\ Exchange(c, "backoff", "sent")
  /\ UNCHANGED <<dbVars, envVars, reqVars, coVars, got, late, shown, crashes>>

\* After a failed update the embed is posted all the same.
Failure(c) == {Says("update_failed"), Profile(user[c], got[c])}

\* db.updateProfile, its SELECT by discord_id.
UpdateCheck(c) ==
  /\ \/ /\ HasRows(user[c])
        /\ Exchange(c, "check", "update")
        /\ UNCHANGED late
     \/ /\ Exchange(c, "check", "over")
        /\ Post(c, Failure(c))
  /\ UNCHANGED <<dbVars, envVars, reqVars, coVars, got, shown, crashes>>

\* db.updateProfile, its UPDATE.  The exception may come before or after the
\* server has written the row.
Update(c) ==
  /\ Exchange(c, "update", "over")
  /\ \/ /\ UpdateRows(user[c], name[c], account[c], got[c])
        /\ \/ Post(c, {Profile(user[c], got[c])})
           \/ Post(c, Failure(c))
     \/ /\ UNCHANGED dbVars
        /\ Post(c, Failure(c))
  /\ UNCHANGED <<envVars, reqVars, coVars, got, shown, crashes>>

\* Discord takes one of the edits that nobody awaits, or refuses it.
LateEdit(c) ==
  /\ \E ans \in late[c] :
       /\ late' = [late EXCEPT ![c] = @ \ {ans}]
       /\ Edit(c, ans)
  /\ UNCHANGED <<dbVars, envVars, reqVars, coVars, http, got, crashes>>

-----------------------------------------------------------------------------
(* The process and its environment. *)

Start ==
  /\ Connect
  /\ UNCHANGED <<envVars, reqVars, coVars, netVars, shown, crashes>>

Crash ==
  /\ connected
  /\ crashes < MaxCrashes
  /\ crashes' = crashes + 1
  /\ Disconnect
  /\ pc' = [c \in Commands |-> IF pc[c] \in Active THEN "lost" ELSE pc[c]]
  /\ http' = [c \in Commands |-> IF http[c] = "none" THEN "none" ELSE "over"]
  /\ late' = [c \in Commands |-> {}]
  /\ UNCHANGED <<envVars, reqVars, name, account, answer, got, shown>>

\* /register user, as one step: the user is linked once.
Register(u, a) ==
  /\ connected
  /\ RowsOf(u) = {}
  /\ InsertRow([row |-> u, discord_id |-> u, discord_username |-> username[u],
                leetcode_username |-> a, stats |-> NoStats])
  /\ UNCHANGED <<envVars, reqVars, coVars, netVars, shown, crashes>>

Rename(u, n) ==
  /\ Renames
  /\ username' = [username EXCEPT ![u] = n]
  /\ Distinct(username')
  /\ UNCHANGED <<dbVars, solved, reqVars, coVars, netVars, shown, crashes>>

\* The owner of an account solves problems.
Solve(a, s) ==
  /\ s > solved[a]
  /\ solved' = [solved EXCEPT ![a] = s]
  /\ UNCHANGED <<dbVars, username, reqVars, coVars, netVars, shown, crashes>>

Coroutine(c) ==
  \/ Begin(c) \/ Lookup(c) \/ Select(c) \/ Announce(c) \/ Exists(c) \/ Load(c)
  \/ Fetch(c) \/ Reply(c)

Completion(c) ==
  \/ HttpProfile(c) \/ HttpFailed(c) \/ HttpRateLimited(c) \/ Retry(c)
  \/ UpdateCheck(c) \/ Update(c)

Environment ==
  \/ \E u \in Users, a \in Accounts : Register(u, a)
  \/ \E u \in Users, n \in Names : Rename(u, n)
  \/ \E a \in Accounts, s \in Stats : Solve(a, s)

Next ==
  \/ \E c \in Commands :
       Issue(c) \/ Coroutine(c) \/ Completion(c) \/ LateEdit(c)
  \/ Start
  \/ Crash
  \/ Environment

Spec == Init /\ [][Next]_vars

-----------------------------------------------------------------------------
(* Properties. *)

\* What the table says of an account LeetCode has said of that account: stats
\* never come from another account, nor run ahead of it, whatever overlaps, is
\* renamed, retried or fails in between.
StatsGenuine ==
  \A r \in users :
    r.stats # NoStats => r.stats <= solved[r.leetcode_username]

\* updateProfile writes leetcode_username and discord_username too, with values
\* read before the request was sent.  It never relinks, adds or loses a user.
LinksStand ==
  [][\A r \in users : \E s \in users' :
       /\ s.row = r.row
       /\ s.discord_id = r.discord_id
       /\ s.leetcode_username = r.leetcode_username]_users

\* Where the commands of a user do not overlap, an update never replaces newer
\* stats by older ones, though a response may be old when it is written.
StatsNeverGoBack ==
  [][~Overlap => \A r \in users, s \in users' :
       r.row = s.row /\ r.stats # NoStats => /\ s.stats # NoStats
                                             /\ r.stats <= s.stats]_users

\* Where nobody renames, a profile is shown to the user whose row it is, and it
\* has stats: the row found by discord_username is the row of the user's id.
ShowsOwnProfile ==
  ~Renames => \A c \in Commands :
    shown[c].is = "profile" => shown[c].of = user[c] /\ shown[c].stats # NoStats

\* The statistics under "<leetcode_username>'s Leetcode profile" come from a row of
\* that account, at least for a caller whose name the handler has right.
ProfileIsOwn ==
  \A c \in Commands :
    /\ shown[c].is = "profile" /\ shown[c].stats # NoStats
    /\ name[c] = username[user[c]]
    => \E r \in RowsOf(shown[c].of) : r.leetcode_username = account[c]

-----------------------------------------------------------------------------
(* The inductive invariant behind them. *)

\* A user has one row, under the user's key.
RowInv ==
  /\ \A r \in users : r.row = r.discord_id
  /\ \A r, s \in users : r.discord_id = s.discord_id => r = s

\* Past the select, and as long as the exchange runs, a command knows the account
\* its user is linked to, and the table says the same.
AccountInv ==
  \A c \in Commands :
    /\ pc[c] \in {"idle", "begin", "lookup", "select"} => http[c] = "none"
    /\ pc[c] \in {"announce", "exists", "load", "fetch"} \/ http[c] # "none" =>
         account[c] # NoAccount
    /\ account[c] # NoAccount =>
         \E r \in RowsOf(user[c]) : r.leetcode_username = account[c]

\* A response is as old as its request, never ahead of the account.
GotInv ==
  \A c \in Commands :
    http[c] \in {"check", "update"} =>
      got[c] \in Stats /\ got[c] <= solved[account[c]]

IInv == TypeOK /\ RowInv /\ AccountInv /\ GotInv /\ StatsGenuine

\* Without overlap nothing writes the row of a user while a response for that
\* user waits to be written.
FreshInv ==
  ~Overlap =>
    /\ \A c, d \in Commands :
         user[c] = user[d] /\ Running(c) /\ Running(d) => c = d
    /\ \A c \in Commands :
         http[c] \in {"check", "update"} =>
           \A r \in RowsOf(user[c]) : r.stats # NoStats => r.stats <= got[c]

Own(c, ans) ==
  ans.is = "profile" => ans.of = user[c] /\ ans.stats # NoStats

\* Without renames the name a command carries, the name in the row and the name
\* on Discord are one, and a row whose stats exist keeps them.
OwnInv ==
  ~Renames =>
    /\ Distinct(username)
    /\ \A r \in users : r.discord_username = username[r.discord_id]
    /\ \A c \in Commands :
         /\ name[c] = username[user[c]]
         /\ pc[c] = "load" => \A r \in RowsOf(user[c]) : r.stats # NoStats
         /\ Own(c, answer[c])
         /\ Own(c, shown[c])
         /\ \A ans \in late[c] : Own(c, ans)

Inv == IInv /\ FreshInv /\ OwnInv

=============================================================================
