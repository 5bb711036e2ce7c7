SPECIFICATION FairSpec
CONSTANTS
  l1 = l1
  l2 = l2
  asr = asr
  cf = cf
  t12 = t12
  Loans = {l1, l2}
  Docs = {cf}
  AsrDocs = {cf}
  IncomeDocs = {cf}
  IngestDocs = {cf}
  MaxJobs = 3
  MaxPosts = 0
  MaxCrashes = 1
  MaxFaults = 0
CHECK_DEADLOCK FALSE
INVARIANTS
  OneActivePerLoan
  RunningIsDrained
  NoOvertaking
PROPERTIES
  TerminalIsFinal
  EveryJobSettles
  ImplementsLoanWork
