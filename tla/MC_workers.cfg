CONSTANTS
  Servers = {s1, s2}
  Workers = {w1, w2}
  Attachments = {a1}
  None = None
  MaxEnds = 1
  Stops = TRUE
  MayStall = TRUE
SYMMETRY ServersAlike
CHECK_DEADLOCK FALSE
SPECIFICATION Spec
INVARIANTS
  OneFileWriter
