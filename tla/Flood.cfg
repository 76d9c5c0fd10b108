\* Two commands, sent at any time, in a network of four nodes in which copies meet.
CONSTANTS
  n1 = n1
  n2 = n2
  n3 = n3
  n4 = n4
  Nodes = {n1, n2, n3, n4}
  Sink = n1
  NoNode = NoNode
  Neighbours <- MCDiamond
  MaxCommand = 2
SPECIFICATION FairSpec
INVARIANTS
  TypeOK
  PathsLeadToSink
  FloodCovers
PROPERTIES
  AcceptedOnce
  FloodEnds
  FloodAdvances
CHECK_DEADLOCK FALSE
