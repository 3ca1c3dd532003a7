SPECIFICATION Spec
CONSTANTS
  r1 = r1  r2 = r2  f1 = f1  f2 = f2
  N = 2
  Runs = {r1, r2}
  Flows = {f1}
  SeqOf <- SameSeq
  FlowOf <- TwoRunsFlow
  AckFlow = f1
  MaxRestarts = 1
  MaxLoss <- NoLoss
  Duplicable = {"SYN", "SYNACK", "ACK"}
  MayTimeOut = TRUE
  CanExpire = TRUE
  MaxTries = 1
INVARIANTS
  MakeBeforeBreak
  SynOncePerIncarnation
  UpstreamFirst
CHECK_DEADLOCK FALSE
