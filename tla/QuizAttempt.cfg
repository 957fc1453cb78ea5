SPECIFICATION FairSpec
CONSTANTS
  Requests = {q1, q2}
  Tabs = {tab1, tab2}
  Choice = {choice}
  Essay = {essay}
  MaxSeq = 2
  MaxPresses = 2
  MaxVersion = 2
  None = None
INVARIANTS
  TypeOK
  SittingIsUngraded
  MarkedAsAnswered
PROPERTIES
  OnlyTheLiveTabWrites
  TeacherOutranks
  OverdueIsClosed
CHECK_DEADLOCK FALSE
