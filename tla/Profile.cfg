SPECIFICATION Spec
CONSTANTS
  c1 = c1  c2 = c2  u1 = u1  u2 = u2  n1 = n1  n2 = n2  n3 = n3  a1 = a1  a2 = a2
  Commands <- TwoCommands
  Users <- TwoUsers
  Keys <- TwoUsers
  Names <- TwoNames
  Accounts <- TwoAccounts
  Stats <- TwoStats
  NoStats = NoStats
  NoAccount = NoAccount
  NoUser = NoUser
  UniqueDiscordId = TRUE
  Overlap = FALSE
  Renames = FALSE
  MaxCrashes = 1
SYMMETRY Symmetry
INVARIANTS Inv ShowsOwnProfile
PROPERTIES StatsNeverGoBack
CHECK_DEADLOCK FALSE
