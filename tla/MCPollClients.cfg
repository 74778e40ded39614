SPECIFICATION ProgramsLive
CONSTANTS
  c1 = c1
  c2 = c2
  c3 = c3
  Clients = {c1, c2, c3}
  Nobody = Nobody
  Fds = {5, 6}
  LEN_FIELD_SIZE = 1
  MAX_MSG_FIELD_SIZE = 1
  ReadSize = 4
  UpCap = 2
  DownCap = 1
  Messages <- Texts
  Quitters = {c1, c3}
  Readers = {c2, c3}
  Programs = {c1}
INVARIANTS PollInv AssertionsHold WishesFollowOutgoing EchoStream QueriesInStep
PROPERTIES AllServed QueriesEnd
CHECK_DEADLOCK FALSE
