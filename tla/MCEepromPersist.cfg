SPECIFICATION Spec
CONSTANTS
  EEPROM_COUNT = 4
  NumTags = 2
  v1 = v1
  v2 = v2
  Val <- MCVal
  Default <- MCDefault
  ShortTag = {1}
  WordTags = 2
  Cuts = {"header", "frame", "migrate", "erase"}
  Faults = {"header", "frame", "erase"}
  None = None
  Blank = Blank
  Bad = Bad
PROPERTY
  SettingsPersist
