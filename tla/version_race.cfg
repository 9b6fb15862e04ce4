\* A status change and a reschedule that expect the same version.
SPECIFICATION Spec
CONSTANTS
  Scorekeepers = {ann}
  MaxLeases = 1
  RegulationPeriods = 1
  MaxPeriod = 2
  ScoreTypes = {"TIMEOUT"}
  StatusChanges = {"POSTPONED", "FORFEITED"}
  ForfeitFor = 3
  ForfeitAgainst = 0
  Reschedulers = {r1}
  Elevations = {FALSE}
  MaxEvents = 1
  MaxTransitions = 4
INVARIANTS OneCommandPerVersion
CHECK_DEADLOCK FALSE
