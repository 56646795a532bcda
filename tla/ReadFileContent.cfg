SPECIFICATION Safety
CONSTANTS
  SizeRange = 32
  IntRange = 8
  MaxString = 3
  MaxLength = 9
  MaxChanges = 1
INVARIANTS
  ContentLoaded
CHECK_DEADLOCK FALSE
