SPECIFICATION Spec
CONSTANTS
  UART_QUEUE_ITEMS = 3
  CONSOLE_MAX_MESSAGE_LENGTH = 4
  CountRange = 5
  Keys = {"char", "end", "abort"}
  MaxLines = 2
  MaxColumns = 2
INVARIANTS
  HoldsWhatWasKept
CHECK_DEADLOCK FALSE
