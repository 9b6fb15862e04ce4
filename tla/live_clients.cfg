\* A scorekeeper's page, and a fan who opens and refreshes two games.
SPECIFICATION Spec
CONSTANTS
  Games = {g1, g2}
  Scored = g1
  Consoles = {c1, c2}
  MaxVersion = 3
  MaxActs = 4
INVARIANTS TypeOK ShownNeverFalls InRoomUpToDate CountedOnce
PROPERTIES CatchesUp
CHECK_DEADLOCK FALSE
