\* Schedules of up to seven teams; recalculations and overrides of small stages overlap.
SPECIFICATION Spec
CONSTANTS
  Rules <- StageRules
  Formats = {"SINGLE_ROUND_ROBIN", "DOUBLE_ROUND_ROBIN", "SINGLE_ELIMINATION"}
  TeamCount = 7
  Scores <- CloseScores
  ForfeitFor = 2
  ForfeitAgainst = 0
  Requests = {r1, r2}
  MaxBatches = 1
  MaxPlayed = 3
  MaxChanges = 2
  MaxCalls = 1
SYMMETRY Symmetry
INVARIANTS TypeOK RoundRobinComplete BracketSound TableSound AtRestCurrent RankingRecorded
PROPERTIES OverridesSurvive
CHECK_DEADLOCK FALSE
