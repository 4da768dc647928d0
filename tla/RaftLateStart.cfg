SPECIFICATION Spec
CONSTANTS
  Server = {s1, s2, s3}
  Command = {c1, c2}
  None = None
  Preempt = {"start"}
  MaxElection = 2
  MaxLog = 1
  MaxCast = 2
  MaxCrash = 0
  MaxLoss = 0
SYMMETRY Symmetry
VIEW View
CHECK_DEADLOCK FALSE
INVARIANT LogMatching
