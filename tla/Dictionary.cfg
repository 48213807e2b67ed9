CONSTANTS
  Words = {w1, w2, w3}
  Requests <- MCRequests
  Mark = 3
  NoIndex = NoIndex
  MaxEntries = 3
  MaxTags = 2

SPECIFICATION Spec

INVARIANTS
  Renumbered
  TagsTellWords
