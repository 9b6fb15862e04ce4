\* Two teams level on points, of whom one has beaten the other.
SPECIFICATION Spec
CONSTANTS
  Rules <- StageRules
  Formats = {"SINGLE_ROUND_ROBIN"}
  TeamCount = 3
  Scores <- WideScores
  ForfeitFor = 2
  ForfeitAgainst = 0
  Requests = {r1}
  MaxBatches = 1
  MaxPlayed = 3
  MaxChanges = 2
  MaxCalls = 0
SYMMETRY Symmetry
INVARIANTS HeadToHeadDecides
CHECK_DEADLOCK FALSE
