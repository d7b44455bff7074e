SPECIFICATION Spec
CONSTANTS
  MAX_WATCHDOG_TIMEOUT_PERIODS = 255
  MAILBOX_UPDATE_PERIOD_SECONDS = 2
  DefaultPolls = 1
  Periods = {2, 6}
  EepromReads = {TRUE}
  Horizon = 2
PROPERTY
  DocumentedPeriod
