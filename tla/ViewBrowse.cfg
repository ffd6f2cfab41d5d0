SPECIFICATION Spec
CONSTANTS
  Lists <- ThreeLists
  cnt_songs <- WithNone
  path_len <- WithNoPath
  is_dir <- WithNoDir
  Fake = Fake
  NoPath = NoPath
  CardSizes = {0, 3}
  repeat_max = 2
  volume_max = 1
  volume_start = 0
  UINT32_MAX = 9
  Inputs <- Browsing
INVARIANTS
  StepsFit
  NowPlaying
  IndexMatches
PROPERTIES
  OnlyOpenedSongs
