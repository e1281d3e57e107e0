SPECIFICATION Spec
CONSTANTS
  Keys = {1, 2, 3, 4, 5, 6, 7, 8}
  Values = {v}
  Hash <- MCHash
  Tag <- MCTag
  MinCap = 8
  MaxCap = 16
  Empty = Empty
  Tombstone = Tombstone
  NoEntry = NoEntry
INVARIANTS
  FindsAll
  SomeEmpty
PROPERTIES
  Implements
