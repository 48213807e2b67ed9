CONSTANTS
  RangeTables <- MCRangeTables
  NameTables <- MCNameTables
  Wanted <- MCWanted
  MaxRanges = 4
  MaxSize = 2

SPECIFICATION LookupSpec

INVARIANTS
  FindsTheField

CHECK_DEADLOCK FALSE
