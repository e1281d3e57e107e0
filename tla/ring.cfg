SPECIFICATION FairSpec
CONSTANTS
  Values = {a, b}
  Nothing = Nothing
  Capacity = 4
  Width = 8
INVARIANTS
  NoRace
PROPERTIES
  Implements
  Drains
