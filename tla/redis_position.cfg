SPECIFICATION ObservedSpec
CONSTANTS
  p1 = p1
  p2 = p2
  c1 = c1
  c2 = c2
  w1 = w1
  w2 = w2
  w3 = w3
  a = a
  b = b
  Process = {p1, p2}
  Client = {c1, c2}
  Worker = {w1, w2, w3}
  Home <- Homes
  Photo = {a, b}
  NoPhoto = NoPhoto
  Uploads <- UploadsOf
  MaxSize = 1
  MaxJobs = 3
  MaxFaults = 0
INVARIANTS NotFoundMeansDone
