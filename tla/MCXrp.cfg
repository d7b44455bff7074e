SPECIFICATION FairSpec
CONSTANTS
  Image <- MCImage
  PageSize = 2
  Addresses <- MCAddresses
  MaxHits = 2
  Records <- MCRecords
  Retries = 2
  Outers = 2
  Polls = 2
INVARIANTS
  TypeOK
  FlashedIsImage
  NeverOver
PROPERTIES
  StartsLoaded
  Returns
