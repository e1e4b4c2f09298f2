SPECIFICATION Spec
CONSTANTS
  MinutesPerDay = 3
  ShiftAMin = 1
  ShiftBMin = 2
  FirstMinute = 1
  LastMinute = 3
  MaxWindows = 2
  MaxSerial = 1
  MaxCrashes = 1
  MaxClockSets = 1
  RtcMayFail = TRUE
  FlashMayFail = TRUE
INVARIANTS
  PendingOnlyInWindow
  LinesDated
PROPERTIES
  NoRolloverUnderOpenWindow
