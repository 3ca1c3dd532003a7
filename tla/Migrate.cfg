SPECIFICATION FairSpec
CONSTANTS
  p1 = p1  p2 = p2  k1 = k1  k2 = k2  u1 = u1  u2 = u2
  Addresses <- AllAddresses
  Ports <- AllPorts
  Packets = {p1, p2}
  Resetters = {}
  Updates = {u1}
  MaxRepeats = 1
  ReceiveOffload = TRUE
  MayFailAlloc = FALSE
INVARIANTS
  TypeOK
  LossFree
  ThroughOneBox
  WireChecksum
  NewPathReady
PROPERTY
  OldPathDrains
