SPECIFICATION Spec
CONSTANTS
  r1 = r1  r2 = r2
  Requests <- TwoRequests
  Threads = 1
CHECK_DEADLOCK FALSE
INVARIANTS DiscordWaitsForFetch
