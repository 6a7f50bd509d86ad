SPECIFICATION Spec
CONSTANTS
  ServerCount = 2
  PeerCount = 2
  Socks = {s1, s2, s3, s4}
  RingCap = 4
  HashCap = 4
  MaxEvents = 2
  None = None
SYMMETRY SockSymmetry
INVARIANTS TypeOK ChannelConservation SocketsAgree PeersAgree OneDialPerPeer
  StableLookup NeverOverflow
PROPERTIES ServerKeptWhileAlive PoolSpec
