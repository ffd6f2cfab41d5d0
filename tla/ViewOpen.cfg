SPECIFICATION Spec
CONSTANTS
  Lists <- TwoLists
  cnt_songs <- TwoAndOne
  path_len <- ShortAndLong
  is_dir <- SecondIsDir
  Fake = Fake
  NoPath = NoPath
  CardSizes = {0, 2}
  repeat_max = 2
  volume_max = 2
  volume_start = 1
  UINT32_MAX = 9
  Inputs <- Browsing
INVARIANTS
  OpenFits
