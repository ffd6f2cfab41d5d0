SPECIFICATION Spec
CONSTANTS
  Lists <- SomeLists
  cnt_songs <- SomeCounts
  Fake = Fake
  Empty = Empty
INVARIANTS
  WindowNames
  RedrawSound
