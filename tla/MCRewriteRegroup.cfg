\* The converter into the grouped language alone, its two walks' receipts compared.
SPECIFICATION TwinSpec
CONSTANTS
  Entries <- AllEntries
  Jobs <- WideJobs
  Fields <- TwoFields
  LenMax = 14
  LenStep = 4
  None = None
  Drifts <- SomeDrifts
  Answers <- AnswerLengths
  Designations <- SomeDesignations
  TagBytes <- TagWidths
CHECK_DEADLOCK FALSE
INVARIANT PassesRepeat
