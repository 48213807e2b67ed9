SPECIFICATION FairSpec
CONSTANTS
  Arrays = {"timer_hit_count", "timer_value", "timer_tag_count", "tag_name", "tag_value", "dictionary"}
  Required = {"server_name"}
  FirstBlock = 2
  Size = 5
  MaxDepth = 5
INVARIANTS
  HeapIsExact
  ElementsHaveRoom
  AcceptedIsComplete
  EachCountedOnce
PROPERTIES
  BackToRecv
