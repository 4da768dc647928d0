SPECIFICATION Spec
CONSTANTS
  Peer = {1, 2}
  MaxCall = 1
  MaxStart = 2
CHECK_DEADLOCK FALSE
INVARIANT OldInstancesIsolated
PROPERTIES ImplementsRemoteCall CallReturns HandlerEnds
