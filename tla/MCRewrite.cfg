\* Pairs of rules over documents of messages and groups, whole and cut short, and
\* insert rules on both sides of the same gaps under an action, at two depth limits;
\* the replay rewriter over the same bytes, its second walk of another length or not.
SPECIFICATION TwinSpec
CONSTANTS
  Entries <- AllEntries
  Jobs <- AllJobs
  Fields <- TwoFields
  LenMax = 14
  LenStep = 4
  None = None
  Drifts <- SomeDrifts
  Answers <- AnswerLengths
  Designations <- SomeDesignations
  TagBytes <- TagWidths
CHECK_DEADLOCK FALSE
INVARIANTS OutputIsExact TwinsAgree TearsAreReported SpliceAndConvertAreExact
PROPERTY JobsEnd
