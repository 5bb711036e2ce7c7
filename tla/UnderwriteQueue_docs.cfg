SPECIFICATION Spec
CONSTANTS
  l1 = l1
  l2 = l2
  asr = asr
  cf = cf
  t12 = t12
  Loans = {l1}
  Docs = {asr, cf, t12}
  AsrDocs = {asr}
  IncomeDocs = {cf, t12}
  IngestDocs = {asr, cf}
  MaxJobs = 3
  MaxPosts = 2
  MaxCrashes = 1
  MaxFaults = 1
CHECK_DEADLOCK FALSE
INVARIANTS
  TypeOK
  StuckRowsAreFaults
  OneRevisionPerRun
  HeadIsNotOlderThanSuccess
