------------------------ MODULE ProductionCycle_proofs ------------------------
(* Theorems about ProductionCycle, for every modulus of the clock, every    *)
(* set of durations and cavity counts.                                      *)
EXTENDS ProductionCycle, TLAPS

(* The difference and the sum of two clock values are clock values. *)
LEMMA ClockArithmetic ==
  ASSUME NEW a \in Clock, NEW b \in Clock
  PROVE  Plus(a, b) \in Clock /\ Minus(a, b) \in Clock
BY ParamAssumption DEF Plus, Minus, Clock

(* The two compound operations keep their variables in their types. *)
LEMMA PauseRecomputeType ==
  ASSUME TypeOK, NEW state, NEW faulted \in BOOLEAN, NEW accum \in Clock,
         NEW paused \in BOOLEAN, PauseRecompute(state, faulted, accum, paused)
  PROVE  /\ window_pause_accum_ms' \in Clock
         /\ window_pause_start_ms' \in Clock
         /\ window_currently_paused' \in BOOLEAN
  <1>1. Minus(now, window_pause_start_ms) \in Clock
    BY ClockArithmetic DEF TypeOK
  <1>2. Plus(accum, Minus(now, window_pause_start_ms)) \in Clock
    BY <1>1, ClockArithmetic
  <1> QED BY <1>2 DEF PauseRecompute, TypeOK

LEMMA SystemFaultRecomputeType ==
  ASSUME TypeOK, NEW any_fault, SystemFaultRecompute(any_fault)
  PROVE  system_state' \in States /\ state_start_ms' \in Clock
BY DEF SystemFaultRecompute, TypeOK, States

(* The part of TypeOK that opening a window changes. *)
WindowType ==
  /\ system_state \in States
  /\ state_start_ms \in Clock
  /\ window_pause_accum_ms \in Clock
  /\ window_pause_start_ms \in Clock
  /\ window_currently_paused \in BOOLEAN

LEMMA EnterWindowType ==
  ASSUME TypeOK, EnterWindow
  PROVE  WindowType'
  <1>1. 0 \in Clock /\ Faulted \in BOOLEAN
    BY ParamAssumption DEF Clock, Faulted, TypeOK
  <1>2. PauseRecompute("WINDOW", Faulted, 0, FALSE)
    BY DEF EnterWindow
  <1> QED BY <1>1, <1>2, PauseRecomputeType DEF EnterWindow, TypeOK, States, WindowType

(* The part of TypeOK that the two fault setters can disturb. *)
MachineType ==
  /\ system_state \in States
  /\ state_start_ms \in Clock
  /\ printed_count \in 0 .. 255
  /\ window_pause_accum_ms \in Clock
  /\ window_pause_start_ms \in Clock
  /\ window_currently_paused \in BOOLEAN
  /\ window_paused_for_printer \in BOOLEAN
  /\ window_paused_for_scanner \in BOOLEAN
  /\ printer_fault_active \in BOOLEAN

LEMMA SetPrinterFaultType ==
  ASSUME TypeOK, NEW active \in BOOLEAN, SetPrinterFault(active)
  PROVE  MachineType'
  <1>1. PauseRecompute(system_state, active \/ window_paused_for_scanner,
                       window_pause_accum_ms, window_currently_paused)
    BY DEF SetPrinterFault
  <1>2. /\ window_pause_accum_ms' \in Clock
        /\ window_pause_start_ms' \in Clock
        /\ window_currently_paused' \in BOOLEAN
    BY <1>1, PauseRecomputeType DEF TypeOK
  <1>3. system_state' \in States /\ state_start_ms' \in Clock
    BY SystemFaultRecomputeType DEF SetPrinterFault
  <1> QED BY <1>2, <1>3 DEF SetPrinterFault, TypeOK, MachineType

LEMMA SetScannerFaultType ==
  ASSUME TypeOK, NEW disconnected \in BOOLEAN, SetScannerFault(disconnected)
  PROVE  MachineType'
  <1>1. PauseRecompute(system_state, window_paused_for_printer \/ disconnected,
                       window_pause_accum_ms, window_currently_paused)
    BY DEF SetScannerFault
  <1>2. /\ window_pause_accum_ms' \in Clock
        /\ window_pause_start_ms' \in Clock
        /\ window_currently_paused' \in BOOLEAN
    BY <1>1, PauseRecomputeType DEF TypeOK
  <1>3. system_state' \in States /\ state_start_ms' \in Clock
    BY SystemFaultRecomputeType DEF SetScannerFault
  <1> QED BY <1>2, <1>3 DEF SetScannerFault, TypeOK, MachineType

LEMMA InitType == Init => TypeOK
  <1> SUFFICES ASSUME Init PROVE TypeOK
    OBVIOUS
  <1>1. 0 \in Clock
    BY ParamAssumption DEF Clock
  <1>2. (~printer_normal) \in BOOLEAN /\ (~barcode_status) \in BOOLEAN
    OBVIOUS
  <1>3. /\ printer_fault_active \in BOOLEAN
        /\ window_paused_for_printer \in BOOLEAN
        /\ window_paused_for_scanner \in BOOLEAN
    BY <1>2 DEF Init
  <1>4. system_state \in States
    BY DEF Init, States
  <1>5. /\ now \in Clock /\ state_start_ms \in Clock
        /\ window_pause_accum_ms \in Clock /\ window_pause_start_ms \in Clock
        /\ printed_count \in 0 .. 255
    BY <1>1 DEF Init
  <1>6. /\ barcode_status \in BOOLEAN /\ printer_normal \in BOOLEAN
        /\ window_currently_paused \in BOOLEAN /\ lastConnectedState \in BOOLEAN
    BY DEF Init
  <1>7. /\ inspection_window \in WindowValues /\ cycle_time \in CycleValues
        /\ cavity_count \in CavityValues
        /\ loop_pc = "poll" /\ scan_pc = "idle"
    BY DEF Init
  <1> QED BY <1>3, <1>4, <1>5, <1>6, <1>7 DEF TypeOK

LEMMA NextType == TypeOK /\ [Next]_vars => TypeOK'
  <1> SUFFICES ASSUME TypeOK, [Next]_vars PROVE TypeOK'
    OBVIOUS
  <1> USE DEF LoopStep, ScanStep, NoStateChange, stateVars, pauseVars, faultVars,
              deviceVars, configVars
  <1>1. CASE LoopNoPollResult
    BY <1>1 DEF LoopNoPollResult, TypeOK
  <1>2. CASE LoopPollResult
    <2>1. SetPrinterFault(~printer_normal) BY <1>2 DEF LoopPollResult
    <2>2. (~printer_normal) \in BOOLEAN OBVIOUS
    <2>3. MachineType' BY <2>1, <2>2, SetPrinterFaultType
    <2> QED BY <1>2, <2>3 DEF LoopPollResult, TypeOK, MachineType
  <1>3. CASE LoopScannerCompare
    BY <1>3 DEF LoopScannerCompare, TypeOK
  <1>4. CASE LoopScannerFault
    <2>1. SetScannerFault(~barcode_status) BY <1>4 DEF LoopScannerFault
    <2>2. (~barcode_status) \in BOOLEAN OBVIOUS
    <2>3. MachineType' BY <2>1, <2>2, SetScannerFaultType
    <2> QED BY <1>4, <2>3 DEF LoopScannerFault, TypeOK, MachineType
  <1>5. CASE LoopScannerLatch
    BY <1>5 DEF LoopScannerLatch, TypeOK
  <1>6. CASE LoopWindowClose
    BY <1>6 DEF LoopWindowClose, EnterCycle, TypeOK, States
  <1>7. CASE LoopCycleEnd
    <2>1. CASE EnterWindow
      <3>1. WindowType'  BY <2>1, EnterWindowType
      <3> QED BY <1>7, <3>1 DEF LoopCycleEnd, TypeOK, WindowType
    <2>2. CASE UNCHANGED <<stateVars, pauseVars>>
      BY <1>7, <2>2 DEF LoopCycleEnd, TypeOK
    <2> QED BY <1>7, <2>1, <2>2 DEF LoopCycleEnd
  <1>8. CASE ScanStart
    BY <1>8 DEF ScanStart, TypeOK
  <1>9. CASE ScanPrePollBad
    <2>1. SetPrinterFault(TRUE) BY <1>9 DEF ScanPrePollBad
    <2>2. MachineType' BY <2>1, SetPrinterFaultType
    <2> QED BY <1>9, <2>2 DEF ScanPrePollBad, TypeOK, MachineType
  <1>10. CASE ScanPrint
    <2>1. printed_count' \in 0 .. 255
      BY <1>10, ParamAssumption DEF ScanPrint, TypeOK
    <2>2. CASE EnterWindow
      <3>1. WindowType' BY <2>2, EnterWindowType
      <3> QED BY <1>10, <2>1, <3>1 DEF ScanPrint, TypeOK, WindowType
    <2>3. CASE UNCHANGED <<stateVars, pauseVars>>
      BY <1>10, <2>1, <2>3 DEF ScanPrint, TypeOK
    <2> QED BY <1>10, <2>2, <2>3 DEF ScanPrint, OpenIfWaiting
  <1>11. CASE ScanCavityReject
    <2>1. CASE EnterWindow
      <3>1. WindowType' BY <2>1, EnterWindowType
      <3> QED BY <1>11, <3>1 DEF ScanCavityReject, TypeOK, WindowType
    <2>2. CASE UNCHANGED <<stateVars, pauseVars>>
      BY <1>11, <2>2 DEF ScanCavityReject, TypeOK
    <2> QED BY <1>11, <2>1, <2>2 DEF ScanCavityReject, OpenIfWaiting
  <1>12. CASE ScanPostPoll
    <2>1. CASE SetPrinterFault(TRUE)
      <3>1. MachineType' BY <2>1, SetPrinterFaultType
      <3> QED BY <1>12, <3>1 DEF ScanPostPoll, TypeOK, MachineType
    <2>2. CASE NoStateChange
      BY <1>12, <2>2 DEF ScanPostPoll, TypeOK
    <2> QED BY <1>12, <2>1, <2>2 DEF ScanPostPoll
  <1>13. CASE ScanLimit
    BY <1>13 DEF ScanLimit, EnterCycle, TypeOK, States
  <1>14. CASE SetConfig
    BY <1>14 DEF SetConfig, TypeOK
  <1>15. CASE ConsolePrint
    <2>1. CASE SetPrinterFault(~printer_normal)
      <3>1. (~printer_normal) \in BOOLEAN OBVIOUS
      <3>2. MachineType' BY <2>1, <3>1, SetPrinterFaultType
      <3> QED BY <1>15, <3>2 DEF ConsolePrint, TypeOK, MachineType
    <2>2. CASE NoStateChange
      BY <1>15, <2>2 DEF ConsolePrint, TypeOK
    <2> QED BY <1>15, <2>1, <2>2 DEF ConsolePrint
  <1>16. CASE ScannerPlug
    BY <1>16 DEF ScannerPlug, TypeOK
  <1>17. CASE PrinterHealth
    BY <1>17 DEF PrinterHealth, TypeOK
  <1>18. CASE Tick
    <2>1. 1 \in Clock BY ParamAssumption DEF Clock
    <2>2. now' \in Clock BY <1>18, <2>1, ClockArithmetic DEF Tick, TypeOK
    <2> QED BY <1>18, <2>2 DEF Tick, TypeOK
  <1>19. CASE UNCHANGED vars
    BY <1>19 DEF vars, TypeOK
  <1> QED
    BY <1>1, <1>2, <1>3, <1>4, <1>5, <1>6, <1>7, <1>8, <1>9, <1>10, <1>11, <1>12,
       <1>13, <1>14, <1>15, <1>16, <1>17, <1>18, <1>19 DEF Next, Loop, ScanFinish

(* Every variable stays in its type: no count exceeds a byte, no clock      *)
(* value leaves the modulus.                                                *)
THEOREM TypeCorrect == Spec => []TypeOK
  <1> QED BY InitType, NextType, PTL DEF Spec
-----------------------------------------------------------------------------
(* Pausing, with or without a loop() that runs during a scan *)

(* A fault setter never opens a window, and pauses the one that is open. *)
LEMMA SetPrinterFaultPauses ==
  ASSUME NEW active \in BOOLEAN, SetPrinterFault(active)
  PROVE  PausedExactlyWhileFaulted'
  <1>1. system_state' = "WINDOW" => system_state = "WINDOW"
    BY DEF SetPrinterFault, SystemFaultRecompute
  <1>2. window_currently_paused' =
          ((active \/ window_paused_for_scanner) /\ system_state = "WINDOW")
    BY DEF SetPrinterFault, PauseRecompute
  <1>3. window_paused_for_printer' = active
        /\ window_paused_for_scanner' = window_paused_for_scanner
    BY DEF SetPrinterFault
  <1> QED BY <1>1, <1>2, <1>3, Zenon DEF PausedExactlyWhileFaulted, Faulted

LEMMA SetScannerFaultPauses ==
  ASSUME NEW disconnected \in BOOLEAN, SetScannerFault(disconnected)
  PROVE  PausedExactlyWhileFaulted'
  <1>1. system_state' = "WINDOW" => system_state = "WINDOW"
    BY DEF SetScannerFault, SystemFaultRecompute
  <1>2. window_currently_paused' =
          ((window_paused_for_printer \/ disconnected) /\ system_state = "WINDOW")
    BY DEF SetScannerFault, PauseRecompute
  <1>3. window_paused_for_scanner' = disconnected
        /\ window_paused_for_printer' = window_paused_for_printer
    BY DEF SetScannerFault
  <1> QED BY <1>1, <1>2, <1>3, Zenon DEF PausedExactlyWhileFaulted, Faulted

LEMMA EnterWindowPauses ==
  ASSUME EnterWindow, UNCHANGED faultVars
  PROVE  PausedExactlyWhileFaulted'
  <1>1. window_currently_paused' <=> Faulted
    BY DEF EnterWindow, PauseRecompute
  <1>2. Faulted' = Faulted
    BY DEF Faulted, faultVars
  <1> QED BY <1>1, <1>2 DEF PausedExactlyWhileFaulted

LEMMA PausedStutter ==
  ASSUME PausedExactlyWhileFaulted, UNCHANGED <<stateVars, pauseVars, faultVars>>
  PROVE  PausedExactlyWhileFaulted'
BY DEF PausedExactlyWhileFaulted, Faulted, stateVars, pauseVars, faultVars

LEMMA NextPauses ==
  PausedExactlyWhileFaulted /\ [Next]_vars => PausedExactlyWhileFaulted'
  <1> SUFFICES ASSUME PausedExactlyWhileFaulted, [Next]_vars
               PROVE  PausedExactlyWhileFaulted'
    OBVIOUS
  <1>1. CASE NoStateChange
    BY <1>1, PausedStutter DEF NoStateChange
  <1>2. ASSUME NEW active \in BOOLEAN, SetPrinterFault(active)
        PROVE  PausedExactlyWhileFaulted'
    BY <1>2, SetPrinterFaultPauses
  <1>3. CASE LoopPollResult
    <2>1. (~printer_normal) \in BOOLEAN OBVIOUS
    <2> QED BY <1>2, <1>3, <2>1 DEF LoopPollResult
  <1>4. CASE LoopScannerFault
    <2>1. (~barcode_status) \in BOOLEAN OBVIOUS
    <2> QED BY <1>4, <2>1, SetScannerFaultPauses DEF LoopScannerFault
  <1>5. CASE EnterCycle
    BY <1>5 DEF EnterCycle, PausedExactlyWhileFaulted
  <1>6. CASE LoopWindowClose
    BY <1>5, <1>6, PausedStutter DEF LoopWindowClose
  <1>7. CASE LoopCycleEnd
    BY <1>7, PausedStutter, EnterWindowPauses DEF LoopCycleEnd
  <1>8. CASE ScanPrint \/ ScanCavityReject
    BY <1>8, PausedStutter, EnterWindowPauses
       DEF ScanPrint, ScanCavityReject, OpenIfWaiting
  <1>9. CASE ScanPrePollBad \/ ScanPostPoll
    BY <1>1, <1>2, <1>9 DEF ScanPrePollBad, ScanPostPoll
  <1>10. CASE ScanLimit
    BY <1>5, <1>10, PausedStutter DEF ScanLimit
  <1>11. CASE ConsolePrint
    <2>1. (~printer_normal) \in BOOLEAN OBVIOUS
    <2> QED BY <1>1, <1>2, <1>11, <2>1 DEF ConsolePrint
  <1>12. CASE LoopNoPollResult \/ LoopScannerCompare \/ LoopScannerLatch \/ ScanStart
              \/ SetConfig \/ ScannerPlug \/ PrinterHealth \/ Tick
    BY <1>1, <1>12 DEF LoopNoPollResult, LoopScannerCompare, LoopScannerLatch, ScanStart,
                       SetConfig, ScannerPlug, PrinterHealth, Tick
  <1>13. CASE UNCHANGED vars
    BY <1>13, PausedStutter DEF vars
  <1> QED
    BY <1>3, <1>4, <1>6, <1>7, <1>8, <1>9, <1>10, <1>11, <1>12, <1>13
       DEF Next, Loop, ScanFinish

(* A window stands still exactly while a fault is flagged: the flags and    *)
(* the pause never disagree, whoever set them last and whether or not       *)
(* loop() interleaves with the scan callback.                               *)
THEOREM PauseFollowsFaults == Spec => []PausedExactlyWhileFaulted
  <1>1. Init => PausedExactlyWhileFaulted
    BY DEF Init, PausedExactlyWhileFaulted
  <1> QED BY <1>1, NextPauses, PTL DEF Spec
-----------------------------------------------------------------------------
(* Waiting for the first scan *)

LEMMA WaitStutter ==
  ASSUME WaitMeansPrinterReady,
         system_state' = "WAIT" => system_state = "WAIT",
         UNCHANGED printer_fault_active
  PROVE  WaitMeansPrinterReady'
BY DEF WaitMeansPrinterReady

LEMMA SetPrinterFaultWaits ==
  ASSUME NEW active \in BOOLEAN, SetPrinterFault(active)
  PROVE  WaitMeansPrinterReady'
  <1>1. CASE active
    <2>1. system_state' # "WAIT"
      BY <1>1 DEF SetPrinterFault, SystemFaultRecompute
    <2> QED BY <2>1 DEF WaitMeansPrinterReady
  <1>2. CASE ~active
    <2>1. ~printer_fault_active'
      BY <1>2 DEF SetPrinterFault
    <2> QED BY <2>1 DEF WaitMeansPrinterReady
  <1> QED BY <1>1, <1>2

LEMMA SetScannerFaultWaits ==
  ASSUME NEW disconnected \in BOOLEAN, SetScannerFault(disconnected)
  PROVE  WaitMeansPrinterReady'
  <1>1. CASE printer_fault_active
    <2>1. system_state' # "WAIT"
      BY <1>1 DEF SetScannerFault, SystemFaultRecompute
    <2> QED BY <2>1 DEF WaitMeansPrinterReady
  <1>2. CASE ~printer_fault_active
    <2>1. ~printer_fault_active'
      BY <1>2 DEF SetScannerFault
    <2> QED BY <2>1 DEF WaitMeansPrinterReady
  <1> QED BY <1>1, <1>2

LEMMA NextWaits ==
  WaitMeansPrinterReady /\ [Next]_vars => WaitMeansPrinterReady'
  <1> SUFFICES ASSUME WaitMeansPrinterReady, [Next]_vars
               PROVE  WaitMeansPrinterReady'
    OBVIOUS
  <1>1. CASE NoStateChange
    BY <1>1, WaitStutter DEF NoStateChange, stateVars, faultVars
  <1>2. (~printer_normal) \in BOOLEAN /\ (~barcode_status) \in BOOLEAN
    OBVIOUS
  <1>3. CASE LoopPollResult \/ ScanPrePollBad \/ ScanPostPoll \/ ConsolePrint
    BY <1>1, <1>2, <1>3, SetPrinterFaultWaits
       DEF LoopPollResult, ScanPrePollBad, ScanPostPoll, ConsolePrint
  <1>4. CASE LoopScannerFault
    BY <1>2, <1>4, SetScannerFaultWaits DEF LoopScannerFault
  <1>5. CASE LoopWindowClose \/ ScanLimit
    BY <1>5, WaitStutter DEF LoopWindowClose, ScanLimit, EnterCycle, stateVars, faultVars
  <1>6. CASE LoopCycleEnd \/ ScanPrint \/ ScanCavityReject
    BY <1>6, WaitStutter DEF LoopCycleEnd, ScanPrint, ScanCavityReject, OpenIfWaiting,
                             EnterWindow, stateVars, faultVars
  <1>7. CASE LoopNoPollResult \/ LoopScannerCompare \/ LoopScannerLatch \/ ScanStart
             \/ SetConfig \/ ScannerPlug \/ PrinterHealth \/ Tick
    BY <1>1, <1>7 DEF LoopNoPollResult, LoopScannerCompare, LoopScannerLatch, ScanStart,
                      SetConfig, ScannerPlug, PrinterHealth, Tick
  <1>8. CASE UNCHANGED vars
    BY <1>1, <1>8 DEF vars, NoStateChange
  <1> QED
    BY <1>3, <1>4, <1>5, <1>6, <1>7, <1>8 DEF Next, Loop, ScanFinish

(* The line never waits for its first scan with a printer known to be       *)
(* faulty, with or without a loop() that runs during a scan.                *)
THEOREM WaitsWithReadyPrinter == Spec => []WaitMeansPrinterReady
  <1>1. Init => WaitMeansPrinterReady
    BY DEF Init, WaitMeansPrinterReady
  <1> QED BY <1>1, NextWaits, PTL DEF Spec
-----------------------------------------------------------------------------
(* The scan callback and loop() taking turns *)

(* A scan that waits after its print does so in an open window, and one     *)
(* that waits for its first poll where a print may follow.                  *)
ScanKeepsItsWindow ==
  /\ scan_pc \in {"postpoll", "limit"} => system_state = "WINDOW" /\ printed_count > 0
  /\ scan_pc = "prepoll" => system_state \in {"WAIT", "WINDOW"}

(* What a step needs to know of the state before it. *)
TurnInv ==
  /\ TypeOK
  /\ CountBelongsToWindow
  /\ ScanKeepsItsWindow

LEMMA SetPrinterFaultTurn ==
  ASSUME TurnInv, NEW active \in BOOLEAN, SetPrinterFault(active)
  PROVE  /\ (system_state' = "WINDOW") <=> (system_state = "WINDOW")
         /\ system_state \in {"WAIT", "ERROR"} <=> system_state' \in {"WAIT", "ERROR"}
         /\ printed_count' = printed_count
BY DEF SetPrinterFault, SystemFaultRecompute

LEMMA SetScannerFaultTurn ==
  ASSUME TurnInv, NEW disconnected \in BOOLEAN, SetScannerFault(disconnected)
  PROVE  /\ (system_state' = "WINDOW") <=> (system_state = "WINDOW")
         /\ system_state \in {"WAIT", "ERROR"} <=> system_state' \in {"WAIT", "ERROR"}
         /\ printed_count' = printed_count
BY DEF SetScannerFault, SystemFaultRecompute

LEMMA NextTurn ==
  ASSUME ~LoopRunsDuringScan
  PROVE  TurnInv /\ [Next]_vars => TurnInv'
  <1> SUFFICES ASSUME TurnInv, [Next]_vars
               PROVE  CountBelongsToWindow' /\ ScanKeepsItsWindow'
    BY NextType DEF TurnInv
  <1> USE DEF TurnInv, CountBelongsToWindow, ScanKeepsItsWindow, LoopStep, ScanStep,
              LoopMayRun, NoStateChange, stateVars, pauseVars, faultVars
  <1>1. CASE LoopPollResult
    <2>1. (~printer_normal) \in BOOLEAN /\ SetPrinterFault(~printer_normal)
      BY <1>1 DEF LoopPollResult
    <2> QED BY <1>1, <2>1, SetPrinterFaultTurn DEF LoopPollResult
  <1>2. CASE LoopScannerFault
    <2>1. (~barcode_status) \in BOOLEAN /\ SetScannerFault(~barcode_status)
      BY <1>2 DEF LoopScannerFault
    <2> QED BY <1>2, <2>1, SetScannerFaultTurn DEF LoopScannerFault
  <1>3. CASE LoopWindowClose
    BY <1>3 DEF LoopWindowClose, EnterCycle
  <1>4. CASE LoopCycleEnd
    BY <1>4 DEF LoopCycleEnd, EnterWindow
  <1>5. CASE ScanStart
    BY <1>5 DEF ScanStart, TypeOK, States
  <1>6. CASE ScanPrePollBad
    BY <1>6, SetPrinterFaultTurn DEF ScanPrePollBad
  <1>7. CASE ScanPrint
    <2>1. system_state' = "WINDOW"
      BY <1>7 DEF ScanPrint, OpenIfWaiting, EnterWindow
    <2>2. printed_count' > 0
      BY <1>7 DEF ScanPrint, TypeOK
    <2> QED BY <1>7, <2>1, <2>2 DEF ScanPrint
  <1>8. CASE ScanCavityReject
    BY <1>8 DEF ScanCavityReject, OpenIfWaiting, EnterWindow
  <1>9. CASE ScanPostPoll
    BY <1>9, SetPrinterFaultTurn DEF ScanPostPoll
  <1>10. CASE ScanLimit
    BY <1>10 DEF ScanLimit, EnterCycle
  <1>11. CASE ConsolePrint
    <2>1. CASE SetPrinterFault(~printer_normal)
      <3>1. (~printer_normal) \in BOOLEAN OBVIOUS
      <3> QED BY <1>11, <2>1, <3>1, SetPrinterFaultTurn DEF ConsolePrint
    <2>2. CASE NoStateChange
      BY <1>11, <2>2 DEF ConsolePrint
    <2> QED BY <1>11, <2>1, <2>2 DEF ConsolePrint
  <1>12. CASE LoopNoPollResult \/ LoopScannerCompare \/ LoopScannerLatch
    BY <1>12 DEF LoopNoPollResult, LoopScannerCompare, LoopScannerLatch
  <1>13. CASE SetConfig \/ ScannerPlug \/ PrinterHealth \/ Tick
    BY <1>13 DEF SetConfig, ScannerPlug, PrinterHealth, Tick
  <1>14. CASE UNCHANGED vars
    BY <1>14 DEF vars
  <1> QED
    BY <1>1, <1>2, <1>3, <1>4, <1>5, <1>6, <1>7, <1>8, <1>9, <1>10, <1>11, <1>12,
       <1>13, <1>14 DEF Next, Loop, ScanFinish

LEMMA TurnInvariant ==
  ASSUME ~LoopRunsDuringScan
  PROVE  Spec => []TurnInv
  <1>1. Init => TurnInv
    BY InitType DEF Init, TurnInv, CountBelongsToWindow, ScanKeepsItsWindow
  <1> QED BY <1>1, NextTurn, PTL DEF Spec

(* When loop() waits for the callback, the count of a window is zero        *)
(* outside it.                                                              *)
THEOREM CountOfOneWindow ==
  ASSUME ~LoopRunsDuringScan
  PROVE  Spec => []CountBelongsToWindow
  <1>1. TurnInv => CountBelongsToWindow
    BY DEF TurnInv
  <1> QED BY <1>1, TurnInvariant, PTL

(* When loop() waits for the callback, a label is counted only in an open   *)
(* window, never in CYCLE_TIME or SYS_ERROR.                                *)
THEOREM CountsOnlyInWindow ==
  ASSUME ~LoopRunsDuringScan
  PROVE  Spec => PrintsOnlyInWindow
  <1>1. TurnInv /\ TurnInv' /\ [Next]_vars
          => [printed_count' > printed_count => system_state' = "WINDOW"]_vars
    <2> SUFFICES ASSUME TurnInv', printed_count' > printed_count, TurnInv
                 PROVE  system_state' = "WINDOW"
      OBVIOUS
    <2> QED BY DEF TurnInv, TypeOK, CountBelongsToWindow
  <1> QED BY <1>1, TurnInvariant, PTL DEF Spec, PrintsOnlyInWindow
-----------------------------------------------------------------------------
(* The machine implements the stopwatch *)

(* millis() moving on by one moves an unwrapped difference on by one.       *)
LEMMA RunTicks ==
  ASSUME NEW t \in Clock, NEW s \in Clock, NEW acc \in Clock,
         Minus(Minus(t, s), acc) + 1 < MillisMod
  PROVE  Minus(Minus(Plus(t, 1), s), acc) = Minus(Minus(t, s), acc) + 1
BY ParamAssumption DEF Plus, Minus, Clock

LEMMA DifferenceTicks ==
  ASSUME NEW t \in Clock, NEW s \in Clock, Minus(t, s) + 1 < MillisMod
  PROVE  Minus(Plus(t, 1), s) = Minus(t, s) + 1
BY ParamAssumption DEF Plus, Minus, Clock

(* Adding the length of a pause to the accumulated pause gives back the     *)
(* time that was on the stopwatch when the pause began, wraps included.     *)
LEMMA RunResumes ==
  ASSUME NEW t \in Clock, NEW s \in Clock, NEW acc \in Clock, NEW p \in Clock
  PROVE  Minus(Minus(t, s), Plus(acc, Minus(t, p))) = Minus(Minus(p, s), acc)
BY ParamAssumption DEF Plus, Minus, Clock

LEMMA FreshRun ==
  ASSUME NEW t \in Clock
  PROVE  Minus(t, t) = 0 /\ Minus(Minus(t, t), 0) = 0
BY ParamAssumption DEF Minus, Clock

LEMMA RunValue ==
  ASSUME window_currently_paused \in BOOLEAN
  PROVE  /\ system_state = "WINDOW" /\ window_currently_paused =>
              Run = Minus(Minus(window_pause_start_ms, state_start_ms), window_pause_accum_ms)
         /\ system_state = "WINDOW" /\ ~window_currently_paused => Run = WindowRun
         /\ system_state = "CYCLE" => Run = CycleRun
         /\ system_state \notin {"WINDOW", "CYCLE"} => Run = 0
BY DEF Run

LEMMA RunValueAfter ==
  ASSUME window_currently_paused' \in BOOLEAN
  PROVE  /\ system_state' = "WINDOW" /\ window_currently_paused' =>
              Run' = Minus(Minus(window_pause_start_ms', state_start_ms'), window_pause_accum_ms')
         /\ system_state' = "WINDOW" /\ ~window_currently_paused' => Run' = WindowRun'
         /\ system_state' = "CYCLE" => Run' = CycleRun'
         /\ system_state' \notin {"WINDOW", "CYCLE"} => Run' = 0
BY DEF Run

(* Setting a fault may start or end a pause, or move between WAIT and       *)
(* ERROR; what the stopwatch shows stays.                                   *)
LEMMA FaultKeepsRun ==
  ASSUME TypeOK, TypeOK', NEW faulted \in BOOLEAN, NEW any_fault,
         PauseRecompute(system_state, faulted, window_pause_accum_ms, window_currently_paused),
         SystemFaultRecompute(any_fault), now' = now
  PROVE  Phase' = Phase /\ Run' = Run
  <1> USE DEF TypeOK
  <1>1. CASE system_state = "WINDOW"
    <2>1. system_state' = "WINDOW" /\ state_start_ms' = state_start_ms
      BY <1>1 DEF SystemFaultRecompute
    <2>2. Phase' = Phase
      BY <1>1, <2>1 DEF Phase
    <2>3. CASE faulted /\ window_currently_paused
      <3>1. UNCHANGED pauseVars
        BY <1>1, <2>3 DEF PauseRecompute, pauseVars
      <3>2. Run' = Run
        BY <1>1, <2>1, <2>3, <3>1, RunValue, RunValueAfter DEF pauseVars
      <3> QED BY <2>2, <3>2
    <2>4. CASE faulted /\ ~window_currently_paused
      <3>1. /\ window_currently_paused'
            /\ window_pause_start_ms' = now
            /\ window_pause_accum_ms' = window_pause_accum_ms
        BY <1>1, <2>4 DEF PauseRecompute
      <3>2. Run' = WindowRun /\ Run = WindowRun
        BY <1>1, <2>1, <2>4, <3>1, RunValue, RunValueAfter DEF WindowRun
      <3> QED BY <2>2, <3>2
    <2>5. CASE ~faulted /\ window_currently_paused
      <3>1. /\ ~window_currently_paused'
            /\ window_pause_accum_ms' = Plus(window_pause_accum_ms, Minus(now, window_pause_start_ms))
        BY <1>1, <2>5 DEF PauseRecompute
      <3>2. Run' = Minus(Minus(now, state_start_ms),
                         Plus(window_pause_accum_ms, Minus(now, window_pause_start_ms)))
        BY <2>1, <3>1, RunValueAfter DEF WindowRun
      <3>3. Run = Minus(Minus(window_pause_start_ms, state_start_ms), window_pause_accum_ms)
        BY <1>1, <2>5, RunValue
      <3> QED BY <2>2, <3>2, <3>3, RunResumes
    <2>6. CASE ~faulted /\ ~window_currently_paused
      <3>1. UNCHANGED <<window_pause_accum_ms, window_currently_paused>>
        BY <1>1, <2>6 DEF PauseRecompute
      <3>2. Run' = WindowRun /\ Run = WindowRun
        BY <1>1, <2>1, <2>6, <3>1, RunValue, RunValueAfter DEF WindowRun
      <3> QED BY <2>2, <3>2
    <2> QED BY <2>3, <2>4, <2>5, <2>6
  <1>2. CASE system_state = "CYCLE"
    <2>1. system_state' = "CYCLE" /\ state_start_ms' = state_start_ms
      BY <1>2 DEF SystemFaultRecompute
    <2>2. Run' = CycleRun /\ Run = CycleRun
      BY <1>2, <2>1, RunValue, RunValueAfter DEF CycleRun
    <2> QED BY <1>2, <2>1, <2>2 DEF Phase
  <1>3. CASE system_state \in {"WAIT", "ERROR"}
    <2>1. system_state' \in {"WAIT", "ERROR"}
      BY <1>3 DEF SystemFaultRecompute
    <2>2. Run' = 0 /\ Run = 0
      BY <1>3, <2>1, RunValue, RunValueAfter
    <2> QED BY <1>3, <2>1, <2>2 DEF Phase
  <1> QED BY <1>1, <1>2, <1>3 DEF States

(* A window starts with nothing on the stopwatch, running or paused.        *)
LEMMA EnterWindowRun ==
  ASSUME TypeOK, TypeOK', EnterWindow, now' = now
  PROVE  Phase' = "open" /\ Run' = 0
  <1>1. /\ system_state' = "WINDOW" /\ state_start_ms' = now
        /\ window_pause_accum_ms' = 0
        /\ window_currently_paused' => window_pause_start_ms' = now
    BY DEF EnterWindow, PauseRecompute
  <1>2. Run' = Minus(Minus(now, now), 0)
    BY <1>1, RunValueAfter DEF WindowRun, TypeOK
  <1> QED BY <1>1, <1>2, FreshRun DEF Phase, TypeOK

LEMMA EnterCycleRun ==
  ASSUME TypeOK, TypeOK', EnterCycle, now' = now
  PROVE  Phase' = "rest" /\ Run' = 0 /\ printed_count' = 0
  <1>1. system_state' = "CYCLE" /\ state_start_ms' = now /\ printed_count' = 0
    BY DEF EnterCycle
  <1>2. Run' = Minus(now, now)
    BY <1>1, RunValueAfter DEF CycleRun, TypeOK
  <1> QED BY <1>1, <1>2, FreshRun DEF Phase, TypeOK

LEMMA StateKeepsRun ==
  ASSUME UNCHANGED <<stateVars, pauseVars>>, now' = now
  PROVE  Phase' = Phase /\ Run' = Run
BY DEF Phase, Run, WindowRun, CycleRun, stateVars, pauseVars

StopwatchStutter == UNCHANGED <<Phase, Run, printed_count, Faulted, configVars>>

LEMMA StutterRefines ==
  ASSUME StopwatchStutter PROVE UNCHANGED Stopwatch!vars
BY DEF StopwatchStutter, Stopwatch!vars, configVars

(* Setting or clearing a fault is at most a change of the stopwatch's own   *)
(* fault flag.                                                              *)
LEMMA PrinterFaultRefines ==
  ASSUME TypeOK, TypeOK', NEW active \in BOOLEAN, SetPrinterFault(active),
         now' = now, UNCHANGED configVars
  PROVE  Stopwatch!FaultChange
  <1>1. (active \/ window_paused_for_scanner) \in BOOLEAN
    OBVIOUS
  <1>2. Phase' = Phase /\ Run' = Run
    BY <1>1, FaultKeepsRun DEF SetPrinterFault
  <1>3. Faulted' \in BOOLEAN
    BY DEF Faulted
  <1> QED BY <1>2, <1>3 DEF Stopwatch!FaultChange, SetPrinterFault, configVars

LEMMA ScannerFaultRefines ==
  ASSUME TypeOK, TypeOK', NEW disconnected \in BOOLEAN, SetScannerFault(disconnected),
         now' = now, UNCHANGED configVars
  PROVE  Stopwatch!FaultChange
  <1>1. (window_paused_for_printer \/ disconnected) \in BOOLEAN
    OBVIOUS
  <1>2. Phase' = Phase /\ Run' = Run
    BY <1>1, FaultKeepsRun DEF SetScannerFault
  <1>3. Faulted' \in BOOLEAN
    BY DEF Faulted
  <1> QED BY <1>2, <1>3 DEF Stopwatch!FaultChange, SetScannerFault, configVars

(* A counted label is the stopwatch's first, or one more in its open window. *)
LEMMA PrintRefines ==
  ASSUME TurnInv, TypeOK', ScanPrint
  PROVE  Stopwatch!Start \/ Stopwatch!AddLabel
  <1> USE DEF TurnInv, ScanPrint, ScanStep, faultVars, configVars
  <1>1. Faulted' = Faulted
    BY DEF Faulted
  <1>2. CASE system_state = "WAIT"
    <2>1. Phase' = "open" /\ Run' = 0
      BY <1>2, EnterWindowRun DEF OpenIfWaiting
    <2>2. Phase = "off" /\ Run = 0 /\ printed_count = 0
      BY <1>2, RunValue DEF Phase, TypeOK, CountBelongsToWindow
    <2> QED BY <1>1, <2>1, <2>2 DEF Stopwatch!Start
  <1>3. CASE system_state = "WINDOW"
    <2>1. Phase' = Phase /\ Run' = Run
      BY <1>3, StateKeepsRun DEF OpenIfWaiting
    <2>2. Phase = "open"
      BY <1>3 DEF Phase
    <2> QED BY <1>1, <2>1, <2>2 DEF Stopwatch!AddLabel
  <1> QED BY <1>2, <1>3 DEF ScanKeepsItsWindow

(* Both callers of close_inspection_window() have one of the two reasons. *)
LEMMA CloseRefines ==
  ASSUME TypeOK, TypeOK', EnterCycle, now' = now, UNCHANGED <<faultVars, configVars>>,
         system_state = "WINDOW",
         \/ ~Faulted /\ Run >= inspection_window
         \/ printed_count >= cavity_count
  PROVE  Stopwatch!Close
  <1>1. Phase = "open" /\ Phase' = "rest" /\ Run' = 0 /\ printed_count' = 0
    BY EnterCycleRun DEF Phase
  <1>2. Faulted' = Faulted
    BY DEF Faulted, faultVars
  <1> QED BY <1>1, <1>2 DEF Stopwatch!Close, configVars

(* Time reaches the stopwatch only outside a pause. *)
LEMMA TickRefines ==
  ASSUME TypeOK, TypeOK', PausedExactlyWhileFaulted, Tick
  PROVE  Stopwatch!Tick \/ StopwatchStutter
  <1> USE DEF Tick, NoStateChange, stateVars, pauseVars, faultVars, configVars
  <1>1. Phase' = Phase /\ Faulted' = Faulted
    BY DEF Phase, Faulted
  <1>2. CASE system_state = "WINDOW" /\ window_currently_paused
    <2>1. Run' = Run
      BY <1>2, RunValue, RunValueAfter DEF TypeOK
    <2> QED BY <1>1, <2>1 DEF StopwatchStutter
  <1>3. CASE system_state = "WINDOW" /\ ~window_currently_paused
    <2>1. Run = WindowRun /\ Run + 1 < MillisMod
      BY <1>3, RunValue DEF RunBound, TypeOK
    <2>2. Run' = Minus(Minus(Plus(now, 1), state_start_ms), window_pause_accum_ms)
      BY <1>3, RunValueAfter DEF WindowRun, TypeOK
    <2>3. Run' = Run + 1
      BY <2>1, <2>2, RunTicks DEF TypeOK, WindowRun
    <2>4. Phase = "open" /\ ~Faulted
      BY <1>3 DEF Phase, PausedExactlyWhileFaulted
    <2> QED BY <1>1, <2>1, <2>3, <2>4 DEF Stopwatch!Tick
  <1>4. CASE system_state = "CYCLE"
    <2>1. Run = CycleRun /\ Run + 1 < MillisMod
      BY <1>4, RunValue DEF RunBound, TypeOK
    <2>2. Run' = Minus(Plus(now, 1), state_start_ms)
      BY <1>4, RunValueAfter DEF CycleRun, TypeOK
    <2>3. Run' = Run + 1
      BY <2>1, <2>2, DifferenceTicks DEF TypeOK, CycleRun
    <2>4. Phase = "rest"
      BY <1>4 DEF Phase
    <2> QED BY <1>1, <2>1, <2>3, <2>4 DEF Stopwatch!Tick
  <1>5. CASE system_state \in {"WAIT", "ERROR"}
    <2>1. Run' = Run
      BY <1>5, RunValue, RunValueAfter DEF TypeOK
    <2> QED BY <1>1, <2>1 DEF StopwatchStutter
  <1> QED BY <1>2, <1>3, <1>4, <1>5 DEF TypeOK, States

LEMMA NextRefines ==
  ASSUME ~LoopRunsDuringScan, TurnInv, TypeOK', PausedExactlyWhileFaulted, [Next]_vars
  PROVE  [Stopwatch!Next]_(Stopwatch!vars)
  <1>0. TypeOK
    BY DEF TurnInv
  <1>1. CASE NoStateChange /\ now' = now /\ UNCHANGED configVars
    <2>1. StopwatchStutter
      BY <1>1, StateKeepsRun
         DEF StopwatchStutter, NoStateChange, Faulted, faultVars
    <2> QED BY <2>1, StutterRefines
  <1>2. ASSUME NEW active \in BOOLEAN, SetPrinterFault(active), now' = now,
               UNCHANGED configVars
        PROVE  Stopwatch!Next
    BY <1>0, <1>2, PrinterFaultRefines DEF Stopwatch!Next
  <1>3. (~printer_normal) \in BOOLEAN /\ (~barcode_status) \in BOOLEAN
    OBVIOUS
  <1>4. CASE LoopPollResult \/ ScanPrePollBad \/ ScanPostPoll \/ ConsolePrint
    BY <1>1, <1>2, <1>3, <1>4
       DEF LoopPollResult, ScanPrePollBad, ScanPostPoll, ConsolePrint, LoopStep, ScanStep
  <1>5. CASE LoopScannerFault
    BY <1>0, <1>3, <1>5, ScannerFaultRefines
       DEF LoopScannerFault, LoopStep, Stopwatch!Next
  <1>6. CASE LoopWindowClose
    <2>1. CASE WindowExpired
      <3>1. ~Faulted /\ Run >= inspection_window /\ system_state = "WINDOW"
        BY <2>1, RunValue, <1>0 DEF WindowExpired, PausedExactlyWhileFaulted, TypeOK
      <3>2. Stopwatch!Close
        BY <1>0, <1>6, <2>1, <3>1, CloseRefines DEF LoopWindowClose, LoopStep
      <3> QED BY <3>2 DEF Stopwatch!Next
    <2>2. CASE ~WindowExpired
      BY <1>1, <1>6, <2>2 DEF LoopWindowClose, LoopStep, NoStateChange
    <2> QED BY <2>1, <2>2
  <1>7. CASE LoopCycleEnd
    <2>1. CASE system_state = "CYCLE" /\ CycleRun >= cycle_time
      <3>1. Phase' = "open" /\ Run' = 0
        BY <1>0, <1>7, <2>1, EnterWindowRun DEF LoopCycleEnd, LoopStep
      <3>2. Phase = "rest" /\ Run = CycleRun
        BY <1>0, <2>1, RunValue DEF Phase, TypeOK
      <3>3. Faulted' = Faulted
        BY <1>7 DEF LoopCycleEnd, Faulted, faultVars
      <3>4. Stopwatch!Reopen
        BY <1>7, <2>1, <3>1, <3>2, <3>3 DEF Stopwatch!Reopen, LoopCycleEnd, LoopStep, configVars
      <3> QED BY <3>4 DEF Stopwatch!Next
    <2>2. CASE ~(system_state = "CYCLE" /\ CycleRun >= cycle_time)
      BY <1>1, <1>7, <2>2 DEF LoopCycleEnd, LoopStep, NoStateChange
    <2> QED BY <2>1, <2>2
  <1>8. CASE ScanPrint
    BY <1>8, PrintRefines DEF Stopwatch!Next
  <1>9. CASE ScanCavityReject
    <2>1. system_state # "WAIT"
      BY <1>9, ParamAssumption DEF TurnInv, TypeOK, CountBelongsToWindow, ScanCavityReject, ScanStep, States
    <2> QED BY <1>1, <1>9, <2>1
            DEF ScanCavityReject, ScanStep, OpenIfWaiting, NoStateChange
  <1>10. CASE ScanLimit
    <2>1. CASE printed_count >= cavity_count
      <3>1. system_state = "WINDOW"
        BY <1>10 DEF TurnInv, ScanKeepsItsWindow, ScanLimit, ScanStep
      <3>2. Stopwatch!Close
        BY <1>0, <1>10, <2>1, <3>1, CloseRefines DEF ScanLimit, ScanStep
      <3> QED BY <3>2 DEF Stopwatch!Next
    <2>2. CASE ~(printed_count >= cavity_count)
      BY <1>1, <1>10, <2>2 DEF ScanLimit, ScanStep, NoStateChange
    <2> QED BY <2>1, <2>2
  <1>11. CASE SetConfig
    <2>1. Phase' = Phase /\ Run' = Run /\ Faulted' = Faulted /\ printed_count' = printed_count
      BY <1>11, StateKeepsRun DEF SetConfig, NoStateChange, Faulted, faultVars
    <2>2. Stopwatch!Reconfigure
      BY <1>11, <2>1 DEF SetConfig, Stopwatch!Reconfigure
    <2> QED BY <2>2 DEF Stopwatch!Next
  <1>12. CASE Tick
    BY <1>0, <1>12, TickRefines, StutterRefines DEF Stopwatch!Next
  <1>13. CASE LoopNoPollResult \/ LoopScannerCompare \/ LoopScannerLatch \/ ScanStart
              \/ ScannerPlug \/ PrinterHealth
    BY <1>1, <1>13 DEF LoopNoPollResult, LoopScannerCompare, LoopScannerLatch, ScanStart,
                       ScannerPlug, PrinterHealth, LoopStep, ScanStep
  <1>14. CASE UNCHANGED vars
    BY <1>1, <1>14 DEF vars, NoStateChange
  <1> QED
    BY <1>4, <1>5, <1>6, <1>7, <1>8, <1>9, <1>10, <1>11, <1>12, <1>13, <1>14
       DEF Next, Loop, ScanFinish

(* When loop() waits for the callback, the production state machine is a    *)
(* stopwatch that stands still during faults: no outage, wrap of millis()   *)
(* or order of overlapping faults changes the time a window is given, and   *)
(* windows start, fill and end only as InspectionStopwatch allows.          *)
THEOREM ImplementsStopwatch ==
  ASSUME ~LoopRunsDuringScan
  PROVE  Spec => StopwatchSpec
  <1>1. Init => Stopwatch!Init
    <2> SUFFICES ASSUME Init PROVE Stopwatch!Init
      OBVIOUS
    <2>1. TypeOK BY InitType
    <2>2. system_state \in {"WAIT", "ERROR"} BY DEF Init
    <2>3. Phase = "off" /\ Run = 0
      BY <2>1, <2>2, RunValue DEF Phase, TypeOK
    <2>4. Faulted \in BOOLEAN BY DEF Faulted
    <2>5. printed_count = 0 BY DEF Init
    <2> QED BY <2>1, <2>3, <2>4, <2>5 DEF Stopwatch!Init, TypeOK
  <1>2. TurnInv /\ TypeOK' /\ PausedExactlyWhileFaulted /\ [Next]_vars
          => [Stopwatch!Next]_(Stopwatch!vars)
    BY NextRefines
  <1> QED
    BY <1>1, <1>2, TurnInvariant, TypeCorrect, PauseFollowsFaults, PTL
       DEF Spec, StopwatchSpec, Stopwatch!Spec
=============================================================================
