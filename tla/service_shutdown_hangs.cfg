SPECIFICATION CountedFairSpec
CONSTANTS
  w1 = w1
  w2 = w2
  a = a
  corrupt = corrupt
  Worker = {w1}
  Photo = {a}
  NoPhoto = NoPhoto
  Corrupt = {}
  MaxSize = 2
  QueueMayFail = TRUE
  MaxJobs = 2
  MaxCrashes = 0
  MaxShutdowns = 1
PROPERTIES ShutdownEnds
CHECK_DEADLOCK FALSE
