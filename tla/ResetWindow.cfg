SPECIFICATION Spec
CONSTANTS
  p1 = p1  p2 = p2  k1 = k1  k2 = k2  u1 = u1  u2 = u2
  Addresses <- AllAddresses
  Ports <- AllPorts
  Packets = {p1}
  Resetters = {k1}
  Updates = {u1}
  MaxRepeats = 1
  ReceiveOffload = TRUE
  MayFailAlloc = FALSE
INVARIANT
  LossFree
