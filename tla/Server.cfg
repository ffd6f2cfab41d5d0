SPECIFICATION AnySpec
CONSTANTS
  Fd = {1, 2}
  conn_sock = 11
  tcp_server_sock = 12
  web_server_sock = 13
  max_auth = 0
  max_clients = 1
  MaxConnections = 3
  Client = {1, 2}
  Commands <- SomeCommands
  Byte <- TheirBytes
  calc_need_rd <- TheirLengths
  junk = 0
  size_inc_value = 1
  HistoryMax = 5
  MaxRead = 3
  short = 2
  long = 5
  header_size = 2
  len_2_size = 2
  len_8_size = 3
  mask_size = 2
  buffer_size = 3
  other_order <- OtherOrder
  Misread = {0, 2, 7}
  FrameSizes = {0, 1, 2, 3, 4, 5, 6}
  MaxData = 6
  sizeof_len = 3
  key_size = 2
  rsa_size = 4
  max_plain = 1
  pass_buff_size = 3
CHECK_DEADLOCK FALSE
INVARIANTS TypesOK OwnedAndPolled OnlyAdmitted EventsMeetTheirOwn InOrder
PROPERTIES GoneAreClosed ImplementsCommands AllArrives
