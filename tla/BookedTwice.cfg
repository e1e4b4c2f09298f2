SPECIFICATION Spec
CONSTANTS
  MinutesPerDay = 3
  ShiftAMin = 1
  ShiftBMin = 2
  FirstMinute = 1
  LastMinute = 5
  MaxWindows = 3
  MaxSerial = 2
  MaxCrashes = 1
  MaxClockSets = 0
  RtcMayFail = FALSE
  FlashMayFail = FALSE
INVARIANTS
  BookedOnce
