SPECIFICATION FairSpec
CONSTANTS
  Depth = 3
  Calls = 3
CHECK_DEADLOCK FALSE
INVARIANTS CoroInv SoundUnlessOvertaken CallResumesOnce NeverBoth EventKept NoWakeupLost
PROPERTIES EventEnds
