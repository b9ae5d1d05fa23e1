CONSTANTS
  Null = Null
  m1 = m1
  m2 = m2
  m3 = m3
  n1 = n1
  gpt = gpt
  gone = gone
  t1 = t1
  t2 = t2
  t3 = t3
  Scenarios = {"late_abort"}
SPECIFICATION Spec
INVARIANTS
  CancellationWakesRetryTimer
