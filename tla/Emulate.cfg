SPECIFICATION FairSpec
CONSTANTS
  N = 2
  Runs = {r1, r2}
  r1 = r1  r2 = r2
  FirstPort = 1025
  MaxSent = 2
  MaxSockets = 2
  MaxLeaked = 1
  CanExpire = TRUE
  MaxLoss <- SynAckLoss
  Duplicable = {"SYN"}
INVARIANTS
  TypeOK
  AckedInOrder
  PortsCounted
PROPERTIES
  ImplementsCommit
  Completes
CHECK_DEADLOCK FALSE
