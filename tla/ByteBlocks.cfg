SPECIFICATION Spec
CHECK_DEADLOCK FALSE
CONSTANTS
  Base = 2
  MaxNodes = 3
  GroupBits = 1
  Width = 3
  Values <- MCValues
  Data <- MCData
  Junk = 3
INVARIANTS OnlyEmptyReadCrashes WrittenReadsBack ViewsExact
PROPERTY ByteTapeSpec
