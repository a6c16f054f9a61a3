------------------------------ MODULE LeetoDB ------------------------------
(***************************************************************************)
(* The database component, src/src/database/LeetoDB.cpp: one `users` table *)
(* behind one sql::Connection that every handler thread of the bot shares  *)
(* without a lock.                                                         *)
(*                                                                         *)
(* The connector runs one statement at a time on the server, so a          *)
(* statement is the unit of interleaving: a method with two statements     *)
(* (registerUser, updateProfile) is two actions, and anything may happen   *)
(* between them.  Every statement may also raise sql::SQLException, which  *)
(* the methods catch; a method that only reads is therefore the set of     *)
(* values it may return.                                                   *)
(*                                                                         *)
(* Rows are records.  `row` is the identity an auto-increment key gives a  *)
(* row, so that two rows with equal columns stay two rows.  The ten        *)
(* columns only updateProfile writes are one field, `stats`; NoStats is    *)
(* NULL.                                                                   *)
(***************************************************************************)
EXTENDS Naturals, FiniteSets

CONSTANTS
  Users,            \* Discord ids
  Names,            \* Discord usernames
  Accounts,         \* LeetCode usernames
  NoAccount,        \* the empty string that value_or("") stands in with
  Keys,             \* auto-increment keys of the rows
  Stats,            \* what LeetCode may report of an account
  NoStats,          \* NULL columns
  UniqueDiscordId   \* does the schema declare users.discord_id UNIQUE?

ASSUME DBAssumption ==
  /\ NoAccount \notin Accounts
  /\ NoStats \notin Stats
  /\ UniqueDiscordId \in BOOLEAN

VARIABLES
  users,            \* the table
  connected         \* LeetoDB::connected

Row == [row : Keys, discord_id : Users, discord_username : Names,
        leetcode_username : Accounts, stats : Stats \cup {NoStats}]

DBTypeOK ==
  /\ users \subseteq Row
  /\ connected \in BOOLEAN

DBInit ==
  /\ users = {}
  /\ connected = FALSE

RowsOf(id)    == {r \in users : r.discord_id = id}
RowsNamed(nm) == {r \in users : r.discord_username = nm}

-----------------------------------------------------------------------------
(* The connection. *)

\* A successful connect(); one that throws leaves `connected` FALSE, and main
\* returns, so it changes nothing.
Connect ==
  /\ ~connected
  /\ connected' = TRUE
  /\ UNCHANGED users

\* ~LeetoDB, or the process dying: the rows outlive the connection.
Disconnect ==
  /\ connected' = FALSE
  /\ UNCHANGED users

-----------------------------------------------------------------------------
(* Methods of one SELECT: the values they may return. *)

\* getLeetcodeUsername(id).value_or(""): an exception gives nullopt and a
\* missing row gives "", which every caller folds into the same "".
LeetcodeUsername(id) ==
  {NoAccount} \cup
  (IF connected THEN {r.leetcode_username : r \in RowsOf(id)} ELSE {})

\* Mutant of StatsExist: a row is enough, NULL columns or not.
RowExists(nm) == {FALSE} \cup (IF connected THEN {TRUE} ELSE {})

\* statsExist(discord_username): FALSE on an exception or on a row with NULLs,
\* and TRUE when there is no row at all.
StatsExist(nm) ==
  {FALSE} \cup
  (IF ~connected THEN {}
   ELSE IF RowsNamed(nm) = {} THEN {TRUE}
   ELSE {r.stats # NoStats : r \in RowsNamed(nm)})

\* Mutant of LeetcodeProfile: the WHERE clause is missing.
AnyProfile(nm) == {{}} \cup (IF connected THEN {{r} : r \in users} ELSE {})

\* getLeetcodeProfile(discord_username): the rows the optional may hold; it is
\* empty on an exception, or when there is no row.
LeetcodeProfile(nm) ==
  {{}} \cup (IF connected THEN {{r} : r \in RowsNamed(nm)} ELSE {})

-----------------------------------------------------------------------------
(* registerUser: SELECT COUNT, then INSERT. *)

\* Mutant of CountIsZero: the count is not looked at.
CountIgnored(id) == connected

\* The SELECT COUNT(*) lets the caller go on to the INSERT.
CountIsZero(id) == connected /\ RowsOf(id) = {}

\* Mutant of InsertRow: a REPLACE, which the UNIQUE key turns into a new link.
ReplaceRow(row) ==
  /\ users' = (users \ RowsOf(row.discord_id)) \cup {row}
  /\ UNCHANGED connected

\* The server accepts the INSERT.
InsertRow(row) ==
  /\ UniqueDiscordId => RowsOf(row.discord_id) = {}
  /\ users' = users \cup {row}
  /\ UNCHANGED connected

-----------------------------------------------------------------------------
(* updateProfile: SELECT by discord_id, then UPDATE by discord_id. *)

\* The SELECT lets updateProfile go on to the UPDATE.
HasRows(id) == connected /\ RowsOf(id) # {}

Updated(r, nm, a, s) ==
  [r EXCEPT !.discord_username = nm, !.leetcode_username = a, !.stats = s]

\* Mutant of UpdateRows: the WHERE clause is missing.
UpdateEveryRow(id, nm, a, s) ==
  /\ users' = {Updated(r, nm, a, s) : r \in users}
  /\ UNCHANGED connected

\* The UPDATE writes every row of the user.
UpdateRows(id, nm, a, s) ==
  /\ users' = (users \ RowsOf(id)) \cup {Updated(r, nm, a, s) : r \in RowsOf(id)}
  /\ UNCHANGED connected

=============================================================================
