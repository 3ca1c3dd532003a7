SPECIFICATION Spec
CONSTANTS
  r1 = r1  r2 = r2  f1 = f1  f2 = f2
  N = 2
  Runs = {r1, r2}
  Flows = {f1}
  SeqOf <- TwoRunsSeq
  FlowOf <- TwoRunsFlow
  AckFlow = f1
  MaxRestarts = 0
  MaxLoss <- NoLoss
  Duplicable = {}
  MayTimeOut = TRUE
  CanExpire = FALSE
  MaxTries = 2
INVARIANTS
  ExitsOnOwnAck
CHECK_DEADLOCK FALSE
