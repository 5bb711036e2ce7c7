SPECIFICATION Spec
CONSTANTS
  o = o
  b1 = b1
  b2 = b2
  p1 = p1
  p2 = p2
  t1 = t1
  t2 = t2
  c1 = c1
  c2 = c2
  Nobody = Nobody
  NoInvite = NoInvite
  NoCall = NoCall
  Users = {o, b1, b2}
  Pools = {p1}
  Tokens = {t1, t2}
  Calls = {c1, c2}
  Role <- MCRole
  Seeded <- MCSeeded
  MaxTime = 2
  MaxVersion = 2
  MaxCrashes = 1
SYMMETRY Symmetry
CHECK_DEADLOCK FALSE
INVARIANTS
  TypeOK
  BuyersAreInvited
  EntryIsConsented
  LostWorkIsFaults
PROPERTIES
  NothingIsTakenBack
