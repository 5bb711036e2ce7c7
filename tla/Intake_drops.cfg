SPECIFICATION Spec
CONSTANTS
  f = f
  g = g
  k = k
  z = z
  l1 = l1
  l2 = l2
  asr = asr
  cf = cf
  p1 = p1
  p2 = p2
  None = None
  Handlers = {p1, p2}
  Loans = {l1, l2}
  Types = {asr, cf}
  Files = {f, g}
  Archives = {z}
  RequiredSlots <- MCSlots
  Contents <- MCContents
  TypeOf <- MCTypeOf
  Owner <- MCOwner
  Contradicted = {}
  MaxRequests = 3
  MaxCrashes = 1
  MaxFaults = 1
CHECK_DEADLOCK FALSE
SYMMETRY HandlerSymmetry
INVARIANTS
  TypeOK
  NothingIsLost
  OnlyDropsMissLoans
