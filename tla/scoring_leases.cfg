\* Two scorekeepers, takeovers, late heartbeats and a racing reschedule around a short game.
SPECIFICATION Spec
CONSTANTS
  Scorekeepers = {ann, bob}
  MaxLeases = 2
  RegulationPeriods = 1
  MaxPeriod = 1
  ScoreTypes = {"ADD_TWO"}
  StatusChanges = {"POSTPONED"}
  ForfeitFor = 3
  ForfeitAgainst = 0
  Reschedulers = {r1}
  Elevations = {FALSE}
  MaxEvents = 2
  MaxTransitions = 2
SYMMETRY Symmetry
INVARIANTS CollisionsNeedALapse WritersDoNotInterleave
CHECK_DEADLOCK FALSE
