SPECIFICATION Spec
CONSTANTS
  a1 = a1
  a2 = a2
  r1 = r1
  o1 = o1
  asr = asr
  roll = roll
  other = other
  n1 = n1
  n2 = n2
  e1 = e1
  p1 = p1
  p2 = p2
  dealref = dealref
  none = none
  k1 = k1
  k2 = k2
  k3 = k3
  Keys = {k1, k2, k3}
  NoKey = none
  normalizePropertyName <- MCNormalName
  normalizeAnalysisNameForMatch <- MCBareName
  Slots = {asr, roll, other}
  AsrSlot = asr
  SlotOf <- MCSlotOf
  DealRef = dealref
  NoDoc = none
  MaxRevs = 3
  MaxDeals = 2
  MaxVersion = 2
  MaxUpsets = 1
  Procs = {p1, p2}
  Docs = {a1, r1, o1}
  Filed = {a1, r1}
  Posted = {o1}
  Refs = {n1, n2}
  Edits = {e1}
  Units = {1}
CHECK_DEADLOCK FALSE
SYMMETRY Symmetry
INVARIANTS
  TypeOK
  HeadsAreAppendable
  OneDealUnlessRekeyed
  
  HeadDocsAreKept
PROPERTIES
  ImplementsRevisionLog
