SPECIFICATION ObservedSpec
CONSTANTS
  p1 = p1
  c1 = c1
  c2 = c2
  w1 = w1
  w2 = w2
  a = a
  b = b
  Process = {p1}
  Client = {c1, c2}
  Worker = {w1, w2}
  Home <- OneHome
  Photo = {a, b}
  NoPhoto = NoPhoto
  MaxSize = 2
  MaxJobs = 4
SYMMETRY PhotoSymmetry
INVARIANTS TypeOK FifoFrontier OneHolder PositionErrsOnlyByPurge
PROPERTIES CapacityRespected RankNeverGrows ImplementsJobQueue
