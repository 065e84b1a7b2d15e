CONSTANTS
  p1 = p1
  p2 = p2
  Peers = {p1, p2}
  NoPeer = none
  MaxStreams = 2
  Backlog = 2
  Says <- Sample
  MaxSent = 2
SPECIFICATION Spec
INVARIANTS EchoInOrder SlotsMatch
PROPERTY EveryPeerHasItsTurn
CHECK_DEADLOCK FALSE
