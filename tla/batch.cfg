SPECIFICATION LiveSpec
CONSTANTS
  Batches = {b1, b2}
  Items = 2
  MaxConcurrent = 1
  MaxTries = 2
  MaxCrashes = 2
CHECK_DEADLOCK FALSE
INVARIANT TypeOK
INVARIANT NoReplay
INVARIANT CompletedAddsUp
INVARIANT WithinLimit
INVARIANT OneItemAfterCancel
PROPERTY EndIsFinal
PROPERTY AnswersKept
PROPERTY BatchesEnd
