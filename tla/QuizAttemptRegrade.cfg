SPECIFICATION Spec
CONSTANTS
  Requests = {q1, q2}
  Tabs = {tab1}
  Choice = {choice}
  Essay = {essay}
  MaxSeq = 1
  MaxPresses = 2
  MaxVersion = 3
  None = None
PROPERTY OnlyOlderMoves
CHECK_DEADLOCK FALSE
