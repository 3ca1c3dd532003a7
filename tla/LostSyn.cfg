SPECIFICATION FairSpec
CONSTANTS
  r1 = r1  r2 = r2  f1 = f1  f2 = f2
  N = 2
  Runs = {r1}
  Flows = {f1}
  SeqOf <- OneRunSeq
  FlowOf <- OneRunFlow
  AckFlow = f1
  MaxRestarts = 0
  MaxLoss <- SynLoss
  Duplicable = {}
  MayTimeOut = FALSE
  CanExpire = FALSE
  MaxTries = 2
PROPERTIES
  ForwardsUntilReceived
CHECK_DEADLOCK FALSE
