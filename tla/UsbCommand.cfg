SPECIFICATION FairSpec
CONSTANTS
  cmd_nothing = cmd_nothing
  cmd_find = cmd_find
  cmd_jmp = cmd_jmp
  Plain = {cmd_nothing}
  sizeof_find_pattern = 2
  sizeof_position_t = 1
  Slack = 2
  MaxSame = 1
  MaxPacket = 3
  MaxBytes = 5
INVARIANTS
  Framed
  TakesInOrder
  ArgumentsIntact
PROPERTIES
  ClearIsAtomic
  Drains
