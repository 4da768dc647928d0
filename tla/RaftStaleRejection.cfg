SPECIFICATION Spec
CONSTANTS
  Server = {s1, s2, s3}
  Command = {c1}
  None = None
  Preempt = {"appendReply"}
  MaxElection = 3
  MaxLog = 0
  MaxCast = 1
  MaxCrash = 0
  MaxLoss = 0
SYMMETRY Symmetry
CHECK_DEADLOCK FALSE
PROPERTY TermMonotonic
