\* Two commands, sent at any time, in a line of three nodes.
CONSTANTS
  n1 = n1
  n2 = n2
  n3 = n3
  n4 = n4
  Nodes = {n1, n2, n3}
  Sink = n1
  NoNode = NoNode
  Neighbours <- MCLine
  MaxCommand = 2
SPECIFICATION HistorySpec
PROPERTIES
  TakenWhenNew
CHECK_DEADLOCK FALSE
