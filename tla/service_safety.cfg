SPECIFICATION CountedSpec
CONSTANTS
  w1 = w1
  w2 = w2
  a = a
  corrupt = corrupt
  Worker = {w1, w2}
  Photo = {a}
  NoPhoto = NoPhoto
  Corrupt = {}
  MaxSize = 1
  QueueMayFail = TRUE
  MaxJobs = 3
  MaxCrashes = 1
  MaxShutdowns = 1
SYMMETRY WorkerSymmetry
INVARIANTS TypeOK OneWorkerPerJob ErrorIsExplained LossPerShutdown
PROPERTIES LostOnlyByShutdown ImplementsJobQueue
CHECK_DEADLOCK FALSE
