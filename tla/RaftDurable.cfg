SPECIFICATION Spec
CONSTANTS
  Server = {s1, s2, s3}
  Command = {c1}
  None = None
  Preempt = {"issue", "voteReply", "appendReply", "start", "send"}
  MaxElection = 2
  MaxLog = 1
  MaxCast = 1
  MaxCrash = 0
  MaxLoss = 1
SYMMETRY Symmetry
CHECK_DEADLOCK FALSE
INVARIANTS TypeOK PersistedIsCurrent
