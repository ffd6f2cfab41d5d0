SPECIFICATION Spec
CONSTANTS
  Songs <- TwoSongs
  size <- Sizes
  offset <- Offsets
  pcm <- Sounds
  Fake = Fake
  Dir = Dir
  Zero = Zero
  mp3_input_buffer_size = 3
  mp3_frame_size = 2
  MAD_BUFFER_GUARD = 1
  half_size = 4
  EncodedLen <- Lengths
  seek_value = 2
INVARIANT RoomForFrame
