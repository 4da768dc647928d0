SPECIFICATION Spec
CONSTANTS
  Worker = {w1, w2}
  Fleets = {{w1}, {w1, w2}}
  MaxServe = 2
  NMap = 3
  NReduce = 2
  MaxKey = 3
  MaxPairs = 3
  MaxCrash = 1
CHECK_DEADLOCK FALSE
INVARIANTS TypeOK OneRPCPerWorker TasksAccounted ScheduleCompleteIfReliable OutputRight
PROPERTIES OutputsFrozen PhasesEnd JobDoneIfReliable
