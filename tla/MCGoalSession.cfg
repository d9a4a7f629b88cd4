SPECIFICATION GSpec
CONSTANTS
  MaxGoals = 3
  MaxLog = 3
  MaxOpened = 2
  MaxInFlight = 1
INVARIANTS NoFlood
PROPERTIES NeverStalls ShownGoalOnly
CHECK_DEADLOCK FALSE
