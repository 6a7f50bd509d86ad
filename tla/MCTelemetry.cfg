SPECIFICATION FairSpec
CONSTANTS
  Clients = {c1, c2}
  Paths = {"default_client"}
  Path <- DefaultPath
  MaxRequests = 2
  None = None
INVARIANTS TypeOK AnswerMatches SaysGoodbye
PROPERTIES RegisterEnds
CHECK_DEADLOCK FALSE
