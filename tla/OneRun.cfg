SPECIFICATION FairSpec
CONSTANTS
  r1 = r1  r2 = r2  f1 = f1  f2 = f2
  N = 3
  Runs = {r1}
  Flows = {f1}
  SeqOf <- OneRunSeq
  FlowOf <- OneRunFlow
  AckFlow = f1
  MaxRestarts = 0
  MaxLoss <- AnyLoss
  Duplicable = {"SYN", "ACK"}
  MayTimeOut = TRUE
  CanExpire = FALSE
  MaxTries = 2
INVARIANTS
  TypeOK
  MakeBeforeBreak
  UpstreamFirst
  NoNullDereference
PROPERTIES
  
  MainNeverStuck
  
CHECK_DEADLOCK FALSE
