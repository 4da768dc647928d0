SPECIFICATION LogSpec
CONSTANTS
  Server = {s1, s2, s3}
  Command = {c1, c2}
  None = None
  Preempt = {}
  MaxElection = 5
  MaxLog = 2
  MaxCast = 3
  MaxCrash = 1
  MaxLoss = 0
SYMMETRY Symmetry
VIEW LogView
CHECK_DEADLOCK FALSE
INVARIANTS LogMatching IndexInRange LeaderCompleteness CommittedOnQuorum
PROPERTIES ImplementsReplicatedLog CommitMonotonic TermMonotonic VoteOnce
