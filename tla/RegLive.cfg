SPECIFICATION FairSpec
CONSTANTS
  c1 = c1  c2 = c2  u1 = u1  n1 = n1  a1 = a1  a2 = a2  s1 = s1
  Commands <- TwoCommands
  Keys <- TwoCommands
  Users <- OneUser
  Names <- OneName
  Accounts <- OneAccount
  Stats <- OneStat
  NoStats = NoStats
  NoAccount = NoAccount
  NoName = NoName
  UniqueDiscordId = TRUE
  Overlap = FALSE
  MaxCrashes = 1
PROPERTIES CommandsAnswered
