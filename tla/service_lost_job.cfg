SPECIFICATION CountedSpec
CONSTANTS
  w1 = w1
  w2 = w2
  a = a
  corrupt = corrupt
  Worker = {w1}
  Photo = {a}
  NoPhoto = NoPhoto
  Corrupt = {}
  MaxSize = 1
  QueueMayFail = FALSE
  MaxJobs = 2
  MaxCrashes = 0
  MaxShutdowns = 1
PROPERTIES DeletedOnlyAfterCallback
