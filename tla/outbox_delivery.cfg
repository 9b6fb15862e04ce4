\* No dispatcher fails; slots do.
SPECIFICATION FairSpec
CONSTANTS
  Events = {1}
  Dispatchers = {d1, d2}
  Workers = {w1, w2}
  BatchSize = 1
  MaxAttempts = 2
  MaxStalls = 1
  PublishFaults = 1
  DispatcherFaults = 0
  WorkerFaults = 2
PROPERTIES EventuallySettled
CHECK_DEADLOCK FALSE
