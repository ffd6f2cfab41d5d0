SPECIFICATION Spec
CONSTANTS
  Lists <- EightSongs
  cnt_songs <- EightCounts
  Fake = Fake
  Empty = Empty
INVARIANT SelectedShown
