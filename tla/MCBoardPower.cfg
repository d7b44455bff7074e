SPECIFICATION FairSpec
CONSTANTS
  LastChannel = 1
  LowLimit <- MCLowLimit
  HighLimit <- MCHighLimit
  Volts = {4}
  UserPages = {0, 1, 7, 255}
  PWR_GOOD = 3
  Rail33 = 1
INVARIANTS
  TypeOK
  ShadowAgrees
  VoutWithin
  GoodIsSetUp
PROPERTIES
  Recovers
  RebootsOnce
