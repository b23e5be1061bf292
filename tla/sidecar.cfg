CONSTANTS
  Caller = {"agent", "admission"}
  BatchOf <- BatchOfDef
  BodyFits = 2
  Fits = 1
  ReceiptWait = 1
  Timeout = 2
  Restarts = 1
SPECIFICATION FairSpec
INVARIANTS OneNonceEach AnswerIsTrue BatchAccounted LandsOnce
PROPERTY QueueDrains
CHECK_DEADLOCK FALSE
