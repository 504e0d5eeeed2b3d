\* A state task that outlives the TUI task.
SPECIFICATION Spec
CONSTANTS
  n1 = n1
  Names = {n1}
  NoName = NoName
  MaxActions = 2
  MaxPushed = 0
CHECK_DEADLOCK FALSE
INVARIANTS
  UpdateHasReceiver
