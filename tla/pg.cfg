SPECIFICATION FairSpec
CONSTANTS
  p1 = p1
  p2 = p2
  c1 = c1
  w1 = w1
  w2 = w2
  w3 = w3
  Process = {p1, p2}
  Client = {c1}
  Worker = {w1, w2, w3}
  Home <- Homes
  MaxSize = 1
  MaxJobs = 3
  MaxFaults = 2
INVARIANTS OneHolder StrandedBounded
PROPERTIES TakenIsMarked AbortedHeals PendingTaken
