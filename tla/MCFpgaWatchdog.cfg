SPECIFICATION FairSpec
CONSTANTS
  MAX_WATCHDOG_TIMEOUT_PERIODS = 255
  MAILBOX_UPDATE_PERIOD_SECONDS = 2
  DefaultPolls = 1
  Periods = {0, 6}
  EepromReads = {TRUE}
  Horizon = 2
INVARIANTS
  TypeOK
  ResetIsReleased
  UserIsWatched
PROPERTIES
  DoneNotInReset
  FullCount
  Recovers
  SilentIsReset
