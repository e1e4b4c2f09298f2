--------------------------- MODULE ProductionCycle ---------------------------
(***************************************************************************)
(* The production state machine: state_machine.cpp, the fault setters of   *)
(* printer_manager.cpp and scanner_manager.cpp, the scan callback of       *)
(* production_manager.cpp, and the steps of loop() that drive them.        *)
(*                                                                         *)
(* Two activities run: loop(), cut where it reads shared state again, and  *)
(* the scan callback, cut where it waits for the printer.  The USB host    *)
(* changes barcode_status and the printer changes its health at any time.  *)
(* Time is millis(): a counter modulo MillisMod.  A fault setter is one    *)
(* step here; what two tasks inside it do to each other is FaultSetters.   *)
(***************************************************************************)
EXTENDS Integers

CONSTANTS
  MillisMod,            \* millis() counts modulo this, 2^32 on the ESP32
  WindowValues,         \* values of g_inspection_window_s * 1000
  CycleValues,          \* values of g_cycle_time_s * 1000
  CavityValues,         \* values of g_cavity_count
  LoopRunsDuringScan    \* TRUE: the callback has a task of its own and loop()
                        \* keeps running while it waits for the printer

ASSUME ParamAssumption ==
  /\ MillisMod \in Nat /\ MillisMod > 1
  /\ WindowValues \subseteq 0 .. MillisMod - 1
  /\ CycleValues \subseteq 0 .. MillisMod - 1
  /\ CavityValues \subseteq 1 .. 255
  /\ LoopRunsDuringScan \in BOOLEAN

VARIABLES
  now,                  \* millis()
  system_state, state_start_ms, printed_count,
  window_pause_accum_ms, window_pause_start_ms, window_currently_paused,
  window_paused_for_printer, window_paused_for_scanner, printer_fault_active,
  barcode_status,       \* the scanner is connected (set by the USB library)
  lastConnectedState,   \* what loop() last saw of it
  printer_normal,       \* the printer would answer a poll with NORMAL
  inspection_window, cycle_time, cavity_count,     \* the configuration
  loop_pc, scan_pc      \* where loop() and the scan callback are

pauseVars == <<window_pause_accum_ms, window_pause_start_ms, window_currently_paused>>
stateVars == <<system_state, state_start_ms>>
faultVars == <<window_paused_for_printer, window_paused_for_scanner, printer_fault_active>>
deviceVars == <<barcode_status, printer_normal>>
configVars == <<inspection_window, cycle_time, cavity_count>>

vars == <<now, stateVars, printed_count, pauseVars, faultVars, deviceVars,
          lastConnectedState, configVars, loop_pc, scan_pc>>

States == {"WAIT", "WINDOW", "CYCLE", "ERROR"}
Clock == 0 .. MillisMod - 1

TypeOK ==
  /\ now \in Clock
  /\ system_state \in States
  /\ state_start_ms \in Clock
  /\ printed_count \in 0 .. 255
  /\ window_pause_accum_ms \in Clock
  /\ window_pause_start_ms \in Clock
  /\ window_currently_paused \in BOOLEAN
  /\ window_paused_for_printer \in BOOLEAN
  /\ window_paused_for_scanner \in BOOLEAN
  /\ printer_fault_active \in BOOLEAN
  /\ barcode_status \in BOOLEAN
  /\ lastConnectedState \in BOOLEAN
  /\ printer_normal \in BOOLEAN
  /\ inspection_window \in WindowValues
  /\ cycle_time \in CycleValues
  /\ cavity_count \in CavityValues
  /\ loop_pc \in {"poll", "scanner", "fault", "latch", "close", "cycle"}
  /\ scan_pc \in {"idle", "prepoll", "postpoll", "limit"}
-----------------------------------------------------------------------------
(* Unsigned 32-bit arithmetic on millis(). *)

(* Definitions named Wrong... are used by nothing: each is the definition  *)
(* after it with a mistake the code could have, which a property must see. *)
WrongPlus(a, b) == a + b

Plus(a, b) == IF a + b < MillisMod THEN a + b ELSE a + b - MillisMod
Minus(a, b) == IF a >= b THEN a - b ELSE a - b + MillisMod

(* Both fault sources feed one pause. *)
Faulted == window_paused_for_printer \/ window_paused_for_scanner

(* What loop() compares with the window's duration. *)
WindowRun == Minus(Minus(now, state_start_ms), window_pause_accum_ms)
CycleRun == Minus(now, state_start_ms)
-----------------------------------------------------------------------------
(* state_machine.cpp *)

(* The accumulated pause is overwritten instead of added to. *)
WrongPauseRecomputeLast(state, faulted, accum, paused) ==
  LET should_pause == faulted /\ state = "WINDOW"
  IN  /\ window_currently_paused' = should_pause
      /\ window_pause_start_ms' =
           IF should_pause /\ ~paused THEN now ELSE window_pause_start_ms
      /\ window_pause_accum_ms' =
           IF ~should_pause /\ paused THEN Minus(now, window_pause_start_ms) ELSE accum

(* A pause is never lifted. *)
WrongPauseRecomputeLatch(state, faulted, accum, paused) ==
  /\ window_currently_paused' = (paused \/ (faulted /\ state = "WINDOW"))
  /\ window_pause_start_ms' = now
  /\ window_pause_accum_ms' = accum

(* window_pause_recompute(), in a step that leaves the machine in state    *)
(* with the given faults, accumulated pause and pause flag.                *)
PauseRecompute(state, faulted, accum, paused) ==
  LET should_pause == faulted /\ state = "WINDOW"
  IN  /\ window_currently_paused' = should_pause
      /\ window_pause_start_ms' =
           IF should_pause /\ ~paused THEN now ELSE window_pause_start_ms
      /\ window_pause_accum_ms' =
           IF ~should_pause /\ paused THEN Plus(accum, Minus(now, window_pause_start_ms))
                                      ELSE accum

(* Only the way into SYS_ERROR. *)
WrongSystemFaultRecompute(any_fault) ==
  /\ system_state' = IF any_fault /\ system_state = "WAIT" THEN "ERROR" ELSE system_state
  /\ state_start_ms' = IF system_state' # system_state THEN now ELSE state_start_ms

(* system_fault_recompute() and the enter_state() it may call. *)
SystemFaultRecompute(any_fault) ==
  /\ system_state' = IF system_state \in {"WAIT", "ERROR"}
                       THEN IF any_fault THEN "ERROR" ELSE "WAIT"
                       ELSE system_state
  /\ state_start_ms' = IF system_state' # system_state THEN now ELSE state_start_ms

(* A window opens running, whatever the faults. *)
WrongEnterWindow ==
  /\ system_state' = "WINDOW"
  /\ state_start_ms' = now
  /\ window_pause_accum_ms' = 0
  /\ window_currently_paused' = FALSE
  /\ UNCHANGED window_pause_start_ms

EnterWindow ==
  /\ system_state' = "WINDOW"
  /\ state_start_ms' = now
  /\ PauseRecompute("WINDOW", Faulted, 0, FALSE)

(* The count is left for the next window to reset. *)
WrongEnterCycle ==
  /\ system_state' = "CYCLE"
  /\ state_start_ms' = now
  /\ UNCHANGED <<printed_count, pauseVars>>

EnterCycle ==
  /\ system_state' = "CYCLE"
  /\ state_start_ms' = now
  /\ printed_count' = 0
  /\ UNCHANGED pauseVars

(* The machine's state is not recomputed. *)
WrongSetPrinterFault(active) ==
  /\ printer_fault_active' = active
  /\ window_paused_for_printer' = active
  /\ PauseRecompute(system_state, active \/ window_paused_for_scanner,
                    window_pause_accum_ms, window_currently_paused)
  /\ UNCHANGED <<stateVars, window_paused_for_scanner, printed_count>>

SetPrinterFault(active) ==
  /\ printer_fault_active' = active
  /\ window_paused_for_printer' = active
  /\ PauseRecompute(system_state, active \/ window_paused_for_scanner,
                    window_pause_accum_ms, window_currently_paused)
  /\ SystemFaultRecompute(active \/ ~barcode_status)
  /\ UNCHANGED <<window_paused_for_scanner, printed_count>>

SetScannerFault(disconnected) ==
  /\ window_paused_for_scanner' = disconnected
  /\ PauseRecompute(system_state, window_paused_for_printer \/ disconnected,
                    window_pause_accum_ms, window_currently_paused)
  /\ SystemFaultRecompute(printer_fault_active \/ ~barcode_status)
  /\ UNCHANGED <<printer_fault_active, window_paused_for_printer, printed_count>>

NoStateChange == UNCHANGED <<stateVars, printed_count, pauseVars, faultVars>>
-----------------------------------------------------------------------------
(* setup() has seeded both fault flags from a live check, so any mix of    *)
(* device states is possible; lastConnectedState still has its initializer. *)
Init ==
  /\ now \in Clock
  /\ barcode_status \in BOOLEAN
  /\ printer_normal \in BOOLEAN
  /\ printer_fault_active = ~printer_normal
  /\ window_paused_for_printer = ~printer_normal
  /\ window_paused_for_scanner = ~barcode_status
  /\ system_state = IF printer_normal /\ barcode_status THEN "WAIT" ELSE "ERROR"
  /\ state_start_ms = now
  /\ printed_count = 0
  /\ window_pause_accum_ms = 0
  /\ window_pause_start_ms = 0
  /\ window_currently_paused = FALSE
  /\ lastConnectedState = FALSE
  /\ inspection_window \in WindowValues
  /\ cycle_time \in CycleValues
  /\ cavity_count \in CavityValues
  /\ loop_pc = "poll"
  /\ scan_pc = "idle"
-----------------------------------------------------------------------------
(* loop(), one action per access to shared state *)

LoopMayRun == scan_pc = "idle" \/ LoopRunsDuringScan

LoopStep(from, to) ==
  /\ LoopMayRun
  /\ loop_pc = from
  /\ loop_pc' = to
  /\ UNCHANGED <<now, deviceVars, configVars, scan_pc>>

(* No background poll has a result in this pass. *)
LoopNoPollResult ==
  /\ LoopStep("poll", "scanner")
  /\ NoStateChange
  /\ UNCHANGED lastConnectedState

(* The reply, or its timeout, has come: any answer but NORMAL is a fault. *)
LoopPollResult ==
  /\ LoopStep("poll", "scanner")
  /\ SetPrinterFault(~printer_normal)
  /\ UNCHANGED lastConnectedState

(* The connection is read three times: here, for the new fault flag, and   *)
(* for the value to compare with in the next pass.                         *)
LoopScannerCompare ==
  /\ LoopStep("scanner", IF barcode_status = lastConnectedState THEN "close" ELSE "fault")
  /\ NoStateChange
  /\ UNCHANGED lastConnectedState

LoopScannerFault ==
  /\ LoopStep("fault", "latch")
  /\ SetScannerFault(~barcode_status)
  /\ UNCHANGED lastConnectedState

LoopScannerLatch ==
  /\ LoopStep("latch", "close")
  /\ lastConnectedState' = barcode_status
  /\ NoStateChange

(* The countdown is compared also during a pause. *)
WrongWindowExpired == system_state = "WINDOW" /\ WindowRun >= inspection_window

WindowExpired ==
  /\ system_state = "WINDOW"
  /\ ~window_currently_paused
  /\ WindowRun >= inspection_window

LoopWindowClose ==
  /\ LoopStep("close", "cycle")
  /\ UNCHANGED <<lastConnectedState, faultVars>>
  /\ IF WindowExpired THEN EnterCycle ELSE UNCHANGED <<stateVars, printed_count, pauseVars>>

LoopCycleEnd ==
  /\ LoopStep("cycle", "poll")
  /\ UNCHANGED <<lastConnectedState, faultVars, printed_count>>
  /\ IF system_state = "CYCLE" /\ CycleRun >= cycle_time
       THEN EnterWindow
       ELSE UNCHANGED <<stateVars, pauseVars>>
-----------------------------------------------------------------------------
(* onBarcodeScanned() *)

ScanStep(from, to) ==
  /\ scan_pc = from
  /\ scan_pc' = to
  /\ UNCHANGED <<now, deviceVars, configVars, lastConnectedState, loop_pc>>

(* Gates 0, 0b and 1; a scan they, the format check or the label generator *)
(* reject changes nothing here.                                            *)
ScanStart ==
  /\ ScanStep("idle", "prepoll")
  /\ barcode_status
  /\ system_state # "ERROR"
  /\ ~printer_fault_active
  /\ system_state # "CYCLE"
  /\ NoStateChange

(* Gate 2 fails: the live poll before printing was not answered NORMAL. *)
ScanPrePollBad ==
  /\ ScanStep("prepoll", "idle")
  /\ ~printer_normal
  /\ SetPrinterFault(TRUE)

(* The first scan prints without opening its window. *)
WrongOpenIfWaiting == UNCHANGED <<stateVars, pauseVars>>

OpenIfWaiting ==
  IF system_state = "WAIT" THEN EnterWindow ELSE UNCHANGED <<stateVars, pauseVars>>

(* Gate 2 passes.  The first scan of all opens the window and is also the  *)
(* first print inside it.                                                  *)
ScanPrint ==
  /\ ScanStep("prepoll", "postpoll")
  /\ printer_normal
  /\ OpenIfWaiting
  /\ printed_count < cavity_count
  /\ printed_count' = printed_count + 1
  /\ UNCHANGED faultVars

(* Gate 3: every cavity already has its label. *)
ScanCavityReject ==
  /\ ScanStep("prepoll", "idle")
  /\ printer_normal
  /\ OpenIfWaiting
  /\ printed_count >= cavity_count
  /\ UNCHANGED <<printed_count, faultVars>>

(* The poll after the job only ever raises the fault. *)
ScanPostPoll ==
  /\ ScanStep("postpoll", "limit")
  /\ IF printer_normal THEN NoStateChange ELSE SetPrinterFault(TRUE)

(* The print that filled the last cavity closes the window. *)
ScanLimit ==
  /\ ScanStep("limit", "idle")
  /\ UNCHANGED faultVars
  /\ IF printed_count >= cavity_count
       THEN EnterCycle
       ELSE UNCHANGED <<stateVars, printed_count, pauseVars>>
-----------------------------------------------------------------------------
(* The console and the environment *)

(* A CFG barcode, setconfig or resetconfig; none looks at the state. *)
SetConfig ==
  /\ scan_pc = "idle" \/ (LoopRunsDuringScan /\ loop_pc = "poll")
  /\ inspection_window' \in WindowValues
  /\ cycle_time' \in CycleValues
  /\ cavity_count' \in CavityValues
  /\ NoStateChange
  /\ UNCHANGED <<now, deviceVars, lastConnectedState, loop_pc, scan_pc>>

(* The console's print command polls the printer and sets or clears the    *)
(* fault; the label it prints is not counted.                              *)
ConsolePrint ==
  /\ LoopMayRun
  /\ loop_pc = "poll"
  /\ IF printer_normal /\ ~printer_fault_active
       THEN NoStateChange
       ELSE SetPrinterFault(~printer_normal)
  /\ UNCHANGED <<now, deviceVars, configVars, lastConnectedState, loop_pc, scan_pc>>

ScannerPlug ==
  /\ barcode_status' = ~barcode_status
  /\ NoStateChange
  /\ UNCHANGED <<now, printer_normal, configVars, lastConnectedState, loop_pc, scan_pc>>

PrinterHealth ==
  /\ printer_normal' = ~printer_normal
  /\ NoStateChange
  /\ UNCHANGED <<now, barcode_status, configVars, lastConnectedState, loop_pc, scan_pc>>

(* No phase counts up to the wrap of millis(), 49.7 days; a pause may.     *)
RunBound ==
  /\ system_state = "WINDOW" /\ ~window_currently_paused => WindowRun + 1 < MillisMod
  /\ system_state = "CYCLE" => CycleRun + 1 < MillisMod

Tick ==
  /\ RunBound
  /\ now' = Plus(now, 1)
  /\ NoStateChange
  /\ UNCHANGED <<deviceVars, configVars, lastConnectedState, loop_pc, scan_pc>>
-----------------------------------------------------------------------------
Loop ==
  \/ LoopNoPollResult \/ LoopPollResult
  \/ LoopScannerCompare \/ LoopScannerFault \/ LoopScannerLatch
  \/ LoopWindowClose \/ LoopCycleEnd

ScanFinish ==
  \/ ScanPrePollBad \/ ScanPrint \/ ScanCavityReject
  \/ ScanPostPoll \/ ScanLimit

Next ==
  \/ Loop \/ ScanStart \/ ScanFinish
  \/ SetConfig \/ ConsolePrint
  \/ ScannerPlug \/ PrinterHealth \/ Tick

Spec == Init /\ [][Next]_vars

(* loop() is called forever and every wait in it or in the callback ends;  *)
(* each background poll is answered or times out, so results keep coming.  *)
Fairness ==
  /\ WF_vars(Loop)
  /\ SF_vars(LoopPollResult)
  /\ WF_vars(ScanFinish)
  /\ WF_vars(Tick)

FairSpec == Spec /\ Fairness
-----------------------------------------------------------------------------
(* Safety *)

(* An open window stands still exactly while a printer or scanner fault is *)
(* flagged, whichever came first, overlapped or outlived the other, and    *)
(* also in a window that opened during the fault: window_pause_recompute() *)
(* is called by both fault setters and by enter_state().                   *)
PausedExactlyWhileFaulted ==
  system_state = "WINDOW" => (window_currently_paused <=> Faulted)

(* printed_count belongs to one window: it is zero in every other state,   *)
(* although only enter_state(SYS_CYCLE_TIME) resets it; so the first scan  *)
(* after power-on and every automatic window start from zero.              *)
CountBelongsToWindow == system_state # "WINDOW" => printed_count = 0

(* The line waits for its first scan only with a printer not known faulty: *)
(* every change of the flag is followed by system_fault_recompute().       *)
WaitMeansPrinterReady == system_state = "WAIT" => ~printer_fault_active

(* A label is counted only in an open window, if loop() waits for the      *)
(* callback: the gates were passed before gate 2's poll, and onBarcode-    *)
(* Scanned() counts after it.                                              *)
PrintsOnlyInWindow ==
  [][printed_count' > printed_count => system_state' = "WINDOW"]_vars

(* readme.md:148-151, of CYCLE_TIME: "Printing blocked. Any scan is        *)
(* rejected."  If loop() runs on it may close the window during the poll.  *)
CyclePrintsNothing ==
  [][printed_count' > printed_count => system_state # "CYCLE"]_vars

Phase ==
  IF system_state = "WINDOW" THEN "open"
  ELSE IF system_state = "CYCLE" THEN "rest" ELSE "off"

(* The time counted in this phase; a paused window shows where it stopped. *)
Run ==
  CASE system_state = "WINDOW" /\ window_currently_paused ->
         Minus(Minus(window_pause_start_ms, state_start_ms), window_pause_accum_ms)
    [] system_state = "WINDOW" /\ ~window_currently_paused -> WindowRun
    [] system_state = "CYCLE" -> CycleRun
    [] OTHER -> 0

(* The machine implements the stopwatch: the time that counts against a    *)
(* window is exact whatever pauses, wraps of millis() and overlapping      *)
(* faults it went through, and windows start and end only as promised.     *)
Stopwatch == INSTANCE InspectionStopwatch WITH
  RunLimit <- MillisMod,
  phase <- Phase,
  run <- Run,
  count <- printed_count,
  faulted <- Faulted,
  window <- inspection_window,
  cycle <- cycle_time,
  cavity <- cavity_count

StopwatchSpec == Stopwatch!Spec
-----------------------------------------------------------------------------
(* Liveness *)

(* Once the printer stays healthy and no scanner fault is flagged, no      *)
(* window stays open: pauses end, the countdown finishes.                  *)
WindowsEnd ==
  <>[](printer_normal /\ ~window_paused_for_scanner) => []<>(system_state # "WINDOW")

(* Once printer and scanner stay healthy the machine leaves SYS_ERROR for  *)
(* good, even if the scanner's edge was missed: the next background poll   *)
(* recomputes the fault from the live connection.                          *)
HealthyLineLeavesError ==
  <>[](printer_normal /\ barcode_status) => <>[](system_state # "ERROR")

(* With a printer that never recovers production comes to rest: before the *)
(* first window in SYS_ERROR, later in one window that stays paused.       *)
OutageHoldsProduction ==
  <>[]~printer_normal =>
    <>[](printer_fault_active /\ (\/ system_state = "ERROR"
                                  \/ system_state = "WINDOW" /\ window_currently_paused))
=============================================================================
