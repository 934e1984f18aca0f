SPECIFICATION Spec
CONSTANTS
  Bankrolls = {0, 20}
  Amounts = {10}
  Stakes = {10}
  Terms <- MCTerms
  BucketLists <- MCBucketLists
  Offsets <- MCOffsets
  NoTime = NoTime
  MomentsPerDay = 2
  LastMoment = 2
  MaxRows = 4
  MaxBets = 2
INVARIANT
  TypeOK
CHECK_DEADLOCK FALSE
