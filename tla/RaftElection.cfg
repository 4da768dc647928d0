SPECIFICATION Spec
CONSTANTS
  Server = {s1, s2, s3}
  Command = {c1}
  None = None
  Preempt = {"issue"}
  MaxElection = 3
  MaxLog = 0
  MaxCast = 0
  MaxCrash = 1
  MaxLoss = 0
SYMMETRY Symmetry
VIEW View
CHECK_DEADLOCK FALSE
INVARIANT ElectionSafety
