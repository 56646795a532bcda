SPECIFICATION Spec
CONSTANTS
  SizeRange = 32
  IntRange = 8
  MaxString = 3
  MaxLength = 9
  MaxChanges = 1
PROPERTIES
  AlwaysReturns
CHECK_DEADLOCK FALSE
