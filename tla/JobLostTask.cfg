SPECIFICATION Spec
CONSTANTS
  Worker = {w1, w2}
  Fleets = {{w1}}
  MaxServe = 1
  NMap = 1
  NReduce = 1
  MaxCrash = 0
CHECK_DEADLOCK FALSE
INVARIANTS ScheduleComplete
