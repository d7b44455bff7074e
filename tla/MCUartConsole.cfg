SPECIFICATION FairSpec
CONSTANTS
  UART_QUEUE_ITEMS = 3
  CONSOLE_MAX_MESSAGE_LENGTH = 4
  CountRange = 5
  Keys = {"char", "end", "backspace", "abort"}
  MaxLines = 2
  MaxColumns = 2
INVARIANTS
  TypeOK
  RingAgrees
  WholeLine
  LinesCounted
PROPERTIES
  LinesHandled
  ImplementsTypedText
CHECK_DEADLOCK FALSE
