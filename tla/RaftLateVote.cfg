SPECIFICATION Spec
CONSTANTS
  Server = {s1, s2, s3}
  Command = {c1}
  None = None
  Preempt = {"voteReply"}
  MaxElection = 3
  MaxLog = 0
  MaxCast = 0
  MaxCrash = 0
  MaxLoss = 0
SYMMETRY Symmetry
VIEW View
CHECK_DEADLOCK FALSE
INVARIANT ElectionSafety
