SPECIFICATION CountedFairSpec
CONSTANTS
  w1 = w1
  w2 = w2
  a = a
  corrupt = corrupt
  Worker = {w1}
  Photo = {a, corrupt}
  NoPhoto = NoPhoto
  Corrupt = {corrupt}
  MaxSize = 1
  QueueMayFail = FALSE
  MaxJobs = 3
  MaxCrashes = 1
  MaxShutdowns = 1
INVARIANTS ProcessingIsHeld RowsBound
PROPERTIES CallbacksInOrder Answered LeavesFlight ShutdownEnds
