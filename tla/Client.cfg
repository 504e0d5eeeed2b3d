\* The client with any server: two names, three commands.
SPECIFICATION FairSpec
CONSTANTS
  n1 = n1
  n2 = n2
  Names = {n1, n2}
  NoName = NoName
  MaxActions = 3
  MaxPushed = 2
CHECK_DEADLOCK FALSE
INVARIANTS
  TypeOK
  DisplayInSync
  StatusAgrees
  NameAsTold
PROPERTIES
  QuitEnds
  ActionTaken
  AnswerShown
