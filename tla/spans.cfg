SPECIFICATION FairSpansSpec
CONSTANTS
  ImageEnd = 4
  Places = {0, 1, 2, 3, 4, 5}
  Ids = {1, 2, 3}
  MinLen = 1
INVARIANTS
  TypeOK
  Disjoint
  Canonical
  Complement
PROPERTIES
  FirstClaimWins
  CallsReturn
