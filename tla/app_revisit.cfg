\* A fan goes from one game to another and back.
SPECIFICATION Spec
CONSTANTS
  Games = {g1, g2}
  Scored = g1
  Consoles = {c1}
  MaxVersion = 2
  MaxActs = 3
INVARIANTS ScreenSubscribed
CHECK_DEADLOCK FALSE
