\* One scorekeeper, baskets, corrections and overtime, and an elevated caller who reopens.
SPECIFICATION Spec
CONSTANTS
  Scorekeepers = {ann}
  MaxLeases = 1
  RegulationPeriods = 1
  MaxPeriod = 2
  ScoreTypes = {"ADD_TWO", "CORRECTION"}
  StatusChanges = {"FORFEITED"}
  ForfeitFor = 3
  ForfeitAgainst = 0
  Reschedulers = {}
  Elevations = {TRUE}
  MaxEvents = 4
  MaxTransitions = 3
INVARIANTS TypeOK LiveInOpenPeriod ScoreMatchesLedger CorrectionsUndoOnce OneCommandPerVersion OfficialResultAnnounced
PROPERTIES FinalResultStands KeepsLedger
CHECK_DEADLOCK FALSE
