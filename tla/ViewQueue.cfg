SPECIFICATION Spec
CONSTANTS
  Lists <- TwoLists
  cnt_songs <- TwoAndOne
  path_len <- SamePaths
  is_dir <- SecondIsDir
  Fake = Fake
  NoPath = NoPath
  CardSizes = {2}
  repeat_max = 2
  volume_max = 0
  volume_start = 0
  UINT32_MAX = 9
  Inputs <- Queueing
INVARIANTS
  TypeOK
  PathMatches
PROPERTIES
  ImplementsQueue
