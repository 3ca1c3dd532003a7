SPECIFICATION FairSpec
CONSTANTS
  k1 = k1  k2 = k2  k3 = k3  c1 = c1  c2 = c2
  Keys = {k1, k2, k3}
  Hash <- Spread
  MaxRecords = 4
  InitialBuckets = 1
  Capacity = 2
  Cpus = {c2}
  WriterCpu = c1
INVARIANTS
  TypeOK
  Fsck
  LookupsRight
  
  Reclaims
PROPERTY
  LookupsEnd
CHECK_DEADLOCK FALSE
