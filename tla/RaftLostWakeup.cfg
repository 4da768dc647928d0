SPECIFICATION Spec
CONSTANTS
  Schedules = {{"wait"}}
  MaxCommit = 1
  MaxGo = 1
CHECK_DEADLOCK FALSE
PROPERTY Campaigns
