SPECIFICATION LiveSpec
CONSTANTS
  c1 = c1
  c2 = c2
  c3 = c3
  Clients = {c1, c2, c3}
  Nobody = Nobody
  Fds = {5, 6}
  LEN_FIELD_SIZE = 1
  MAX_MSG_FIELD_SIZE = 1
  ReadSize = 4
  UpCap = 2
  DownCap = 1
  Messages <- Texts
  Quitters = {c2}
  Readers = {c1}
PROPERTY WritesReturn
CHECK_DEADLOCK FALSE
