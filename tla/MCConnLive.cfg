SPECIFICATION FairSpec
CONSTANTS
  ServerCount = 1
  PeerCount = 1
  Socks = {s1, s2, s3}
  RingCap = 7
  HashCap = 8
  MaxEvents = 2
  None = None
INVARIANTS FdAccounted
PROPERTIES DeadIsReclaimed LostPeerIsDialed
