CONSTANTS
  Items = {a, b}
  None = None
  Depth = 2
SPECIFICATION FairSpec
INVARIANTS TypeOK FlagsAgree
PROPERTIES IsQueue Drains
