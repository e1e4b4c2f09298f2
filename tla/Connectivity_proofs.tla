--------------------------- MODULE Connectivity_proofs ---------------------------
(* Theorems about Connectivity, for every length of the waits that the        *)
(* assumption allows, every set of times and a watchdog that may not be armed.*)
EXTENDS Connectivity, TLAPS

LEMMA WaitLimits ==
  /\ Waits = {"connect", "ntp", "print", "dump"}
  /\ Limit["connect"] = ConnectTimeout /\ Limit["ntp"] = NtpTimeout
  /\ Limit["print"] = PrintTime /\ Limit["dump"] = DumpTime
  /\ \A w \in Waits : Limit[w] \in Nat
  /\ WatchdogTimeout \in Nat /\ WatchdogTimeout > 0
  /\ \A n \in InheritedTimeouts : n \in Nat
BY ConnectivityAssumption DEF Waits, Limit

(* The longest wait is longer than every limit: a hang can show.            *)
LEMMA LongestWaitIsLongest == LongestWait \in Nat /\ \A w \in Waits : Limit[w] < LongestWait
  <1> DEFINE S == {Limit[w] : w \in Waits}
             IsMax(n) == \A w \in Waits : n >= Limit[w]
  <1>1. \E n \in S : IsMax(n)
    <2>1. \E v \in Waits : \A w \in Waits : Limit[v] >= Limit[w]
      <3> DEFINE a == Limit["connect"]
                 b == Limit["ntp"]
                 c == Limit["print"]
                 d == Limit["dump"]
      <3>1. a \in Nat /\ b \in Nat /\ c \in Nat /\ d \in Nat
        BY WaitLimits
      <3>2. \/ a >= b /\ a >= c /\ a >= d
            \/ b >= a /\ b >= c /\ b >= d
            \/ c >= a /\ c >= b /\ c >= d
            \/ d >= a /\ d >= b /\ d >= c
        BY <3>1
      <3> QED BY <3>1, <3>2, WaitLimits
    <2> QED BY <2>1
  <1>2. (CHOOSE n \in S : IsMax(n)) \in S /\ IsMax(CHOOSE n \in S : IsMax(n))
    BY <1>1, Zenon
  <1> DEFINE m == CHOOSE n \in S : IsMax(n)
  <1>3. m \in Nat /\ \A w \in Waits : m >= Limit[w] /\ Limit[w] \in Nat
    BY <1>2, WaitLimits
  <1>4. LongestWait = 1 + m
    BY DEF LongestWait
  <1> HIDE DEF m
  <1> QED BY <1>3, <1>4

-----------------------------------------------------------------------------
(* Types                                                                    *)

(* TypeOK in the groups that an action changes together. *)
FlagType ==
  {portal_running, routes_registered, has_creds, armed, panics, osf, synced} \subseteq BOOLEAN
PlaceType ==
  /\ pc \in {"boot", "loop"} \cup Waits \cup ClockSteps
  /\ wifi \in {"OFF", "STA", "AP"}
  /\ current_shift \in {"none", "A", "B"}
  /\ answer \in {"none", "ok", "error"}
  /\ blocking \in {"nothing", "connect", "print", "dump", "several"}
TimeType ==
  /\ waited \in 0 .. LongestWait
  /\ timeout \in {WatchdogTimeout} \cup InheritedTimeouts
  /\ elapsed \in 0 .. timeout
  /\ rtc \in Registers
  /\ wanted \in Times \cup {Odd}


(* Before setup() no time is counted, so that whichever timer is armed has   *)
(* all of its time left.                                                    *)
StartsFresh == pc = "boot" => elapsed = 0

LEMMA TypeGroups == TypeOK <=> FlagType /\ PlaceType /\ TimeType
BY DEF TypeOK, FlagType, PlaceType, TimeType

LEMMA TypeGroupsNext == TypeOK' <=> FlagType' /\ PlaceType' /\ TimeType'
BY DEF TypeOK, FlagType, PlaceType, TimeType

LEMMA StartsFreshStep ==
  ASSUME StartsFresh, [Next]_vars
  PROVE  StartsFresh'
  <1> USE WaitLimits DEF StartsFresh, ClockSteps
  <1>1. CASE Boot \/ LoopPass
    BY <1>1 DEF Boot, LoopPass
  <1>2. CASE Restart \/ WatchdogFires
    BY <1>2 DEF Restart, WatchdogFires, Reset
  <1>3. CASE Tick \/ PrintOrDump \/ PrintOrDumpEnds
    BY <1>3 DEF Tick, PrintOrDump, PrintOrDumpEnds, StartWait
  <1>4. CASE PortalStart \/ PortalStop \/ WifiCommand
    BY <1>4 DEF PortalStart, PortalStop, WifiCommand
  <1>5. CASE Timesync
    BY <1>5 DEF Timesync, TimesyncStart, StartWait, TimesyncConnected, TimesyncFails,
                TimesyncFetched, Answer
  <1>6. CASE SetTime \/ ClockStep
    BY <1>6 DEF SetTime, ClockStep, ClockWritten, ClockNotWritten, FlagStep, Verified, NotVerified,
                Answer
  <1>7. CASE ClockAdvance \/ UNCHANGED vars
    BY <1>7 DEF ClockAdvance, vars, watch
  <1> QED BY <1>1, <1>2, <1>3, <1>4, <1>5, <1>6, <1>7 DEF Next

LEMMA FlagStepType ==
  ASSUME FlagType, [Next]_vars
  PROVE  FlagType'
  <1> USE DEF FlagType, radio, clock, watch, timer
  <1>1. CASE Boot
    <2>1. armed' \in BOOLEAN /\ panics' \in BOOLEAN
      BY <1>1, Zenon DEF Boot, ArmWatchdog
    <2> QED BY <1>1, <2>1, Zenon DEF Boot
  <1>2. CASE Restart
    <2>1. osf' \in BOOLEAN
      BY <1>2, Zenon DEF Restart
    <2> QED BY <1>2, <2>1, Zenon DEF Restart, Reset
  <1>3. CASE WatchdogFires
    BY <1>3, Zenon DEF WatchdogFires, Reset
  <1>4. CASE LoopPass \/ Tick \/ PrintOrDump \/ PrintOrDumpEnds
    BY <1>4, Zenon DEF LoopPass, Feed, Tick, PrintOrDump, StartWait, PrintOrDumpEnds
  <1>5. CASE PortalStart \/ PortalStop \/ WifiCommand
    BY <1>5, Zenon DEF PortalStart, PortalStop, WifiCommand
  <1>6. CASE Timesync
    BY <1>6, Zenon DEF Timesync, TimesyncStart, StartWait, TimesyncConnected, TimesyncFails,
                       TimesyncFetched, Answer
  <1>7. CASE SetTime \/ ClockWritten \/ ClockNotWritten \/ Verified \/ NotVerified \/ ClockAdvance
    BY <1>7, Zenon DEF SetTime, ClockWritten, ClockNotWritten, Verified, NotVerified, Answer,
                       ClockAdvance
  <1>8. CASE FlagStep
    <2>1. osf' \in BOOLEAN
      BY <1>8, Zenon DEF FlagStep
    <2> QED BY <1>8, <2>1, Zenon DEF FlagStep
  <1>9. CASE UNCHANGED vars
    BY <1>9, Zenon DEF vars
  <1> QED BY <1>1, <1>2, <1>3, <1>4, <1>5, <1>6, <1>7, <1>8, <1>9 DEF Next, ClockStep

LEMMA PlaceStepType ==
  ASSUME PlaceType, [Next]_vars
  PROVE  PlaceType'
  <1> USE WaitLimits DEF PlaceType, ClockSteps
  <1>1. CASE Boot \/ LoopPass
    BY <1>1 DEF Boot, LoopPass, Feed, ShiftOf, radio
  <1>2. CASE Restart \/ WatchdogFires
    BY <1>2 DEF Restart, WatchdogFires, Reset
  <1>3. CASE Tick \/ PrintOrDump \/ PrintOrDumpEnds
    BY <1>3 DEF Tick, PrintOrDump, PrintOrDumpEnds, StartWait, radio, watch
  <1>4. CASE PortalStart \/ PortalStop \/ WifiCommand
    BY <1>4 DEF PortalStart, PortalStop, WifiCommand, radio, watch
  <1>5. CASE Timesync
    BY <1>5 DEF Timesync, TimesyncStart, StartWait, TimesyncConnected, TimesyncFails,
                TimesyncFetched, Answer, radio, watch
  <1>6. CASE SetTime \/ ClockStep \/ ClockAdvance
    BY <1>6 DEF SetTime, ClockStep, ClockWritten, ClockNotWritten, FlagStep, Verified, NotVerified,
                Answer, ClockAdvance, ShiftOf, radio, watch
  <1>7. CASE UNCHANGED vars
    BY <1>7 DEF vars, radio, watch
  <1> QED BY <1>1, <1>2, <1>3, <1>4, <1>5, <1>6, <1>7 DEF Next

LEMMA TimeStepType ==
  ASSUME TimeType, StartsFresh, [Next]_vars
  PROVE  TimeType'
  <1>0. /\ WatchdogTimeout \in Nat /\ LongestWait \in Nat
        /\ timeout \in Nat /\ elapsed \in Nat
    BY WaitLimits, LongestWaitIsLongest DEF TimeType
  <1> USE <1>0 DEF TimeType, timer
  <1>1. CASE Boot
    <2>1. /\ UNCHANGED <<waited, rtc, wanted>> /\ elapsed' = 0
          /\ timeout' \in {WatchdogTimeout} \cup InheritedTimeouts \/ timeout' = timeout
      BY <1>1, Zenon DEF Boot, ArmWatchdog, StartsFresh, clock
    <2>2. timeout' \in {WatchdogTimeout} \cup InheritedTimeouts /\ timeout' \in Nat
      BY <2>1, WaitLimits
    <2> QED BY <2>1, <2>2
  <1>9. CASE LoopPass
    <2>1. UNCHANGED <<waited, timeout, rtc, wanted>> /\ elapsed' = 0
      BY <1>9, Zenon DEF LoopPass, Feed, clock
    <2> QED BY <2>1
  <1>2. CASE Restart \/ WatchdogFires
    <2>1. waited' = 0 /\ elapsed' = 0 /\ timeout' = WatchdogTimeout /\ wanted' = Odd /\ rtc' = rtc
      BY <1>2, Zenon DEF Restart, WatchdogFires, Reset, clock
    <2> QED BY <2>1
  <1>3. CASE Tick
    BY <1>3 DEF Tick, clock
  <1>4. CASE PrintOrDump \/ PrintOrDumpEnds
    BY <1>4 DEF PrintOrDump, PrintOrDumpEnds, StartWait, clock, watch
  <1>5. CASE PortalStart \/ PortalStop \/ WifiCommand
    BY <1>5 DEF PortalStart, PortalStop, WifiCommand, clock, watch
  <1>6. CASE Timesync
    BY <1>6 DEF Timesync, TimesyncStart, StartWait, TimesyncConnected, TimesyncFails,
                TimesyncFetched, Answer, clock, watch
  <1>7. CASE SetTime \/ ClockStep \/ ClockAdvance
    BY <1>7 DEF SetTime, ClockStep, ClockWritten, ClockNotWritten, FlagStep, Verified, NotVerified,
                Answer, ClockAdvance, Stored, Registers, clock, watch
  <1>8. CASE UNCHANGED vars
    BY <1>8 DEF vars, clock, watch
  <1> QED BY <1>1, <1>2, <1>3, <1>4, <1>5, <1>6, <1>7, <1>8, <1>9 DEF Next

LEMMA InitTypes == Init => TypeOK
  <1> SUFFICES ASSUME Init PROVE TypeOK
    OBVIOUS
  <1>1. FlagType
    BY Zenon DEF Init, FlagType
  <1>2. PlaceType /\ TimeType
    BY WaitLimits, LongestWaitIsLongest DEF Init, PlaceType, TimeType
  <1> QED BY <1>1, <1>2, TypeGroups

(* Every variable keeps its type; the ranges of the times are the guards of  *)
(* Tick.                                                                     *)
THEOREM TypeCorrect == Spec => []TypeOK
  <1>1. Init => TypeOK
    BY InitTypes
  <1>2. Init => StartsFresh
    BY DEF Init, StartsFresh
  <1>3. TypeOK /\ StartsFresh /\ [Next]_vars => TypeOK' /\ StartsFresh'
    BY FlagStepType, PlaceStepType, TimeStepType, StartsFreshStep, TypeGroups, TypeGroupsNext
  <1> QED BY <1>1, <1>2, <1>3, PTL DEF Spec

-----------------------------------------------------------------------------
(* The radio                                                                *)

(* timesync alone has the radio as a station, until it answers; an access    *)
(* point is the portal's.                                                   *)
RadioInv ==
  /\ wifi = "STA" => pc \in {"connect", "ntp"} \cup ClockSteps
  /\ wifi = "AP" => portal_running
  /\ wifi \in {"OFF", "STA", "AP"}

LEMMA RadioStep ==
  ASSUME RadioInv, [Next]_vars
  PROVE  RadioInv'
  <1> USE WaitLimits DEF RadioInv, ClockSteps
  <1>1. CASE Boot \/ LoopPass
    BY <1>1 DEF Boot, LoopPass, radio
  <1>2. CASE Restart \/ WatchdogFires
    BY <1>2 DEF Restart, WatchdogFires, Reset
  <1>3. CASE Tick \/ PrintOrDump \/ PrintOrDumpEnds
    BY <1>3 DEF Tick, PrintOrDump, PrintOrDumpEnds, StartWait, radio
  <1>4. CASE PortalStart \/ PortalStop \/ WifiCommand
    BY <1>4 DEF PortalStart, PortalStop, WifiCommand, radio
  <1>5. CASE Timesync
    BY <1>5 DEF Timesync, TimesyncStart, StartWait, TimesyncConnected, TimesyncFails,
                TimesyncFetched, Answer, radio
  <1>6. CASE SetTime \/ ClockStep \/ ClockAdvance
    BY <1>6 DEF SetTime, ClockStep, ClockWritten, ClockNotWritten, FlagStep, Verified, NotVerified,
                Answer, ClockAdvance, radio
  <1>7. CASE UNCHANGED vars
    BY <1>7 DEF vars, radio
  <1> QED BY <1>1, <1>2, <1>3, <1>4, <1>5, <1>6, <1>7 DEF Next

(* Between commands the radio is off, or it is the access point of a running *)
(* portal, whatever timesync, the portal, resets and the watchdog did.       *)
THEOREM RadioRests == Spec => []RadioOffAtRest
  <1>1. Init => RadioInv
    BY DEF Init, RadioInv
  <1>2. RadioInv /\ [Next]_vars => RadioInv'
    BY RadioStep
  <1>3. RadioInv => RadioOffAtRest
    BY DEF RadioInv, RadioOffAtRest, ClockSteps
  <1> QED BY <1>1, <1>2, <1>3, PTL DEF Spec

(* A running portal has its access point and its pages until timesync takes  *)
(* the radio.                                                               *)
THEOREM PortalServes == Spec => []PortalMeansAccessPoint
  <1>1. Init => PortalMeansAccessPoint
    BY DEF Init, PortalMeansAccessPoint
  <1>2. PortalMeansAccessPoint /\ [Next]_vars => PortalMeansAccessPoint'
    <2> SUFFICES ASSUME PortalMeansAccessPoint, [Next]_vars PROVE PortalMeansAccessPoint'
      OBVIOUS
    <2> USE DEF PortalMeansAccessPoint
    <2>1. CASE Restart \/ WatchdogFires
      BY <2>1 DEF Restart, WatchdogFires, Reset
    <2>2. CASE PortalStart
      BY <2>2 DEF PortalStart
    <2>3. CASE PortalStop
      BY <2>3 DEF PortalStop
    <2>4. CASE TimesyncStart
      BY <2>4 DEF TimesyncStart
    <2>5. CASE TimesyncFails \/ ClockNotWritten \/ Verified \/ NotVerified
      BY <2>5 DEF TimesyncFails, ClockNotWritten, Verified, NotVerified, Answer
    <2>6. CASE \/ Boot \/ LoopPass \/ Tick \/ PrintOrDump \/ PrintOrDumpEnds \/ WifiCommand
               \/ TimesyncConnected \/ TimesyncFetched \/ SetTime \/ ClockWritten \/ FlagStep
               \/ ClockAdvance \/ UNCHANGED vars
      BY <2>6 DEF Boot, LoopPass, Tick, PrintOrDump, PrintOrDumpEnds, WifiCommand, TimesyncConnected,
                  TimesyncFetched, SetTime, ClockWritten, FlagStep, ClockAdvance, vars, radio
    <2> QED BY <2>1, <2>2, <2>3, <2>4, <2>5, <2>6 DEF Next, Timesync, ClockStep
  <1> QED BY <1>1, <1>2, PTL DEF Spec

=============================================================================
