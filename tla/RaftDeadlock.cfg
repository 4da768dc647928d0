SPECIFICATION Spec
CONSTANTS
  Schedules = {{"loop"}}
  MaxCommit = 1
  MaxGo = 1
CHECK_DEADLOCK FALSE
PROPERTY StartReturns
