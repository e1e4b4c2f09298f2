SPECIFICATION Spec
CONSTANTS
  Keys = {"cycletime", "cavity", "shift_a"}
  LongMod = 256
  MinuteSeconds = 3
  SecondMillis = 5
  HourMinutes = 3
  MinutesPerDay = 8
  CavityMax = 5
  DefaultSeconds = 3
  DefaultCavity = 2
  DefaultShift = 6
  Patterns = {0, 1, 5, 86, 170}
  NvsMayFail = TRUE
INVARIANTS
  ConfirmedSettingsHold
PROPERTIES
  CavityGetsShown
