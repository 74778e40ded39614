SPECIFICATION LiveSpec
CONSTANTS
  c1 = c1
  c2 = c2
  c3 = c3
  Clients = {c1, c2, c3}
  Nobody = Nobody
  LEN_FIELD_SIZE = 2
  MAX_MSG_FIELD_SIZE = 2
  Limit <- Limits
  Queries <- Texts
  ReplyLen = 1
  Eager = {c3}
  Mortal = {c1, c2, c3}
INVARIANTS LockStep ServerSurvives
PROPERTY EveryoneServed
CHECK_DEADLOCK FALSE
