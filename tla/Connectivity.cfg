SPECIFICATION FairSpec
CONSTANTS
  WatchdogTimeout = 16
  ConnectTimeout = 40
  NtpTimeout = 20
  PrintTime = 2
  DumpTime = 12
  Times = {day, night}
  DayTimes = {day}
  Odd = odd
  WatchdogMayFail = TRUE
  InheritedTimeouts = {10}
INVARIANTS
  RadioOffAtRest
  PortalMeansAccessPoint
PROPERTIES
  LoopComesAround
