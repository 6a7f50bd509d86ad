SPECIFICATION FairSpec
CONSTANTS
  Apps = {a1}
  Mon = Mon
  PeerCount = 2
  ChanCount = 1
  RingSize = 2
  EchoCap = 2
  Beyond = 3
  MaxItems = 3
  None = None
INVARIANTS TypeOK NoDangling AnswerMatches LeaksAccounted CleanAddressed AtMostOnce
PROPERTIES RegisterHeard
