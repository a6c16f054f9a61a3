SPECIFICATION Spec
CONSTANTS
  c1 = c1  c2 = c2  u1 = u1  n1 = n1  a1 = a1  a2 = a2  s1 = s1
  Commands <- TwoCommands
  Keys <- TwoCommands
  Users <- OneUser
  Names <- OneName
  Accounts <- TwoAccounts
  Stats <- OneStat
  NoStats = NoStats
  NoAccount = NoAccount
  NoName = NoName
  UniqueDiscordId = FALSE
  Overlap = FALSE
  MaxCrashes = 1
SYMMETRY Symmetry
INVARIANTS IInv OneRowPerUser AnswersTruthful RequestsBounded
           RegistrationVerified FutureKept
PROPERTIES SuccessStands
