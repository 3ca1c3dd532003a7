SPECIFICATION Spec
CONSTANTS
  r1 = r1  r2 = r2  f1 = f1  f2 = f2
  N = 2
  Runs = {r1, r2}
  Flows = {f1}
  SeqOf <- SameSeq
  FlowOf <- TwoRunsFlow
  AckFlow = f1
  MaxRestarts = 1
  MaxLoss <- NoLoss
  Duplicable = {}
  MayTimeOut = TRUE
  CanExpire = TRUE
  MaxTries = 2
INVARIANTS
  NoNullDereference
CHECK_DEADLOCK FALSE
