CONSTANTS
  Clients = {c1, c2}
  Sessions = {s1}
  MaxOps = 2
  MaxCalls = 1
  MaxRemovals = 1
  MaxCrashes = 1
  MaxRefusals = 1
  Deferred = FALSE
  MayClose = TRUE
SPECIFICATION Spec
INVARIANTS
  RoutesAreLive
  CallsKeepLease
