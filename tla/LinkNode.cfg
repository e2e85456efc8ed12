SPECIFICATION FairSpec
CONSTANT Peers = {p1, p2}
INVARIANTS
  ClientFdIsOwn
  AllClosedAtExit
  KilledOnlyBySplit
PROPERTIES
  CallbacksAlternate
  SignalEnds
  PeerIsAccepted
CHECK_DEADLOCK FALSE
