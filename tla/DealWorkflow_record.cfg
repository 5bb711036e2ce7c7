SPECIFICATION Spec
CONSTANTS
  d1 = d1
  d2 = d2
  a1 = a1
  k1 = k1
  k2 = k2
  t1 = t1
  t2 = t2
  Roots = {d1}
  Renders = {a1}
  Keys = {k1, k2}
  Kinds <- MCKinds
  Texts = {t1, t2}
  MaxTime = 2
  MaxRows = 5
  MaxCrashes = 1
SYMMETRY Symmetry
CHECK_DEADLOCK FALSE
INVARIANTS
  TypeOK
  ActionsAreOneChain
  EventsNamePatches
  SilentCommentsAreFaults
  ReplayShowsEveryComment
PROPERTIES
  ImplementsCommitteeRecord
