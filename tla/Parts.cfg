SPECIFICATION Spec
CONSTANTS
  cost_2 = 3
  offset = 2
  soft_offset = 1
  limit = 3
  limit_speed = 2
  min_speed_cnt = 1
  max_speed_cnt = 3
  max_ticks = 2
  speed = 4
  Sizes = {1, 2, 3}
  buffer_size = 8
  MaxAnswers = 7
  Char = {a, b}
  MaxSize = 5
  text_size = 6
  List = {0, 1, 2}
CHECK_DEADLOCK FALSE
INVARIANTS TypeOK FrameDecoded PictureShown ReadsWhatWasWritten SentAsTyped
PROPERTIES KeysRepeat OneMeaningPerTouch AnswersArrive SearchFinds DecodesTheSong
