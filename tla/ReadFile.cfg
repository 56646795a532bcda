SPECIFICATION Spec
CONSTANTS
  SizeRange = 32
  IntRange = 8
  MaxString = 3
  MaxLength = 9
  MaxChanges = 2
INVARIANTS
  TypeOK
  InBounds
  Released
PROPERTIES
  ReadsOnce
  ReturnsUnlessShrunk
CHECK_DEADLOCK FALSE
