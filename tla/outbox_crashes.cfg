\* Two events, two dispatchers and two slots that stop, fail and stall.
SPECIFICATION Spec
CONSTANTS
  Events = {1, 2}
  Dispatchers = {d1, d2}
  Workers = {w1, w2}
  BatchSize = 2
  MaxAttempts = 2
  MaxStalls = 1
  PublishFaults = 1
  DispatcherFaults = 1
  WorkerFaults = 1
SYMMETRY Symmetry
INVARIANTS TypeOK ClaimedOnce PublishedIsQueued SuccessIsReal
CHECK_DEADLOCK FALSE
