SPECIFICATION FairSpec
CONSTANTS
  UARTTX_QUEUE_ITEMS = 2
  MainSizes = {1, 2}
  HandlerJobs <- MCHandlerJobs
  MaxBytes = 4
INVARIANTS
  TypeOK
  BytesKept
  Draining
PROPERTIES
  AllSent
  ImplementsByteStream
CHECK_DEADLOCK FALSE
