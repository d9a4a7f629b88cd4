SPECIFICATION GSpec
CONSTANTS
  MaxGoals = 2
  MaxLog = 3
  MaxOpened = 2
  MaxInFlight = 1
PROPERTY GoalGoesOn
CHECK_DEADLOCK FALSE
