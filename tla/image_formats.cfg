SPECIFICATION FormatsSpec
CONSTANTS
  Files <- AllFiles
  Images <- FoundImages
  Contents <- AllContents
  Window = 9
  Word = 4096
  SectorSize = 4
  MaxGtes = 4
  CowdGtes = 8
  SeGrain = 2
  SeTable = 4
  SeEntry = 2
  Limit = 256
  SeLimit = 512
INVARIANTS
  SameHeader
  TablesCover
  OnlyWrapsPass
  TextWhole
  TurnedDownAtOnce
  NoExtentLost
  RefusedForCause
PROPERTY
  DescriptorRead
CHECK_DEADLOCK FALSE
