SPECIFICATION Spec
CONSTANTS
  c1 = c1  c2 = c2  u1 = u1  n1 = n1  a1 = a1  a2 = a2  s1 = s1
  Commands <- TwoCommands
  Keys <- TwoCommands
  Users <- OneUser
  Names <- OneName
  Accounts <- TwoAccounts
  Stats <- OneStat
  NoStats = NoStats
  NoAccount = NoAccount
  NoName = NoName
  UniqueDiscordId = TRUE
  Overlap = TRUE
  MaxCrashes = 0
SYMMETRY Symmetry
PROPERTIES ImplementsRegistry
