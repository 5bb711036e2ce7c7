SPECIFICATION Spec
CONSTANTS
  f = f
  g = g
  k = k
  z = z
  l1 = l1
  l2 = l2
  asr = asr
  cf = cf
  p1 = p1
  p2 = p2
  None = None
  Handlers = {p1, p2}
  Loans = {l1}
  Types = {asr, cf}
  Files = {f, g}
  Archives = {}
  RequiredSlots <- MCSlots
  Contents <- MCContents
  TypeOf <- MCTypeOf
  Owner <- MCOwner
  Contradicted = {f}
  MaxRequests = 3
  MaxCrashes = 0
  MaxFaults = 0
CHECK_DEADLOCK FALSE
SYMMETRY HandlerSymmetry
INVARIANTS
  ContradictedIsConfirmed
