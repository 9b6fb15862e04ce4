\* A dispatcher stops between its claim and the end of its batch.
SPECIFICATION FairSpec
CONSTANTS
  Events = {1}
  Dispatchers = {d1, d2}
  Workers = {w1, w2}
  BatchSize = 1
  MaxAttempts = 2
  MaxStalls = 1
  PublishFaults = 0
  DispatcherFaults = 1
  WorkerFaults = 0
PROPERTIES ClaimsEnd
CHECK_DEADLOCK FALSE
