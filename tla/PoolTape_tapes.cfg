SPECIFICATION Spec
CONSTANTS
  r1 = r1
  r2 = r2
  kicked = kicked
  dropped = dropped
  Refs = {r1, r2}
  Outcomes = {kicked}
  MaxLoans = 2
  MaxRows = 2
  MaxVersion = 2
  MaxCrashes = 1
CHECK_DEADLOCK FALSE
SYMMETRY RefSymmetry
INVARIANTS
  TypeOK
  OneRecordPerLoan
  WorkingFollowsCurrent
PROPERTIES
  ImplementsLoanFates
