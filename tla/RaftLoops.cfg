SPECIFICATION Spec
CONSTANTS
  Schedules = {{"make"}, {"go", "make"}, {"wait"}, {"loop"}}
  MaxCommit = 2
  MaxGo = 1
CHECK_DEADLOCK FALSE
INVARIANTS TypeOK NoLostWakeup MakeRestores
PROPERTIES CampaignsIfUndisturbed BeatsIfUndisturbed AppliesIfUndisturbed
PROPERTY StartReturnsOrDeadlocks
