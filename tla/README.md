# Verification of the QR traceability controller

TLA+ models, TLC runs and TLAPS proofs for the ESP32 firmware in `src/`: a
controller that scans a raw-material QR code, prints a traceability label over
RS232, counts OK and NG parts by shift, and keeps its books across power
failures. The code has no tests; the models are read from the source, and doc
comments and `readme.md` are used only as statements to compare it with.

## 1. Inventory

The firmware is one Arduino sketch: `setup()`, a cooperative `loop()`, and one
callback, `onBarcodeScanned()`, that the USB scanner library calls. Components
share global variables; there are no locks.

| Component | State it keeps | Operations | Hard behaviour |
|---|---|---|---|
| State machine (`state_machine.*`) | `system_state`, `state_start_ms`, pause accumulator, the two pause sources | `enter_state`, `window_pause_recompute`, `system_fault_recompute` | overlapping faults, wrap of `millis()`, windows that open during a fault |
| Scan pipeline (`production_manager.*`) | `printed_count` | `onBarcodeScanned`: gates 0 to 3, label, poll before and after the print, early close | waits for the printer between testing the state and using it, and again before closing the window |
| Main loop and boot (`main.ino`) | `lastConnectedState`, timers | polls, scanner edge, window and cycle timers, shift check, recovery of the checkpoint | three reads of `barcode_status` in one pass; resume or finalize after a restart |
| Shift books (`shift_manager.*`) | totals, `shift_counter`, `current_shift`, record date, pending rollover; `/stats` in flash | `check_shift_rollover`, `close_inspection_window`, `apply_shift_rollover`, checkpoint, finalized line | boundary inside a window, power failure between two writes, clock set under the books |
| Printer link (`printer_manager.*`) | `bg_poll_state`, `printer_fault_active`, the bytes on the line | blocking poll, background poll, fault flag | late replies, a blocking poll that takes the link from a background poll |
| Scanner manager (`scanner_manager.*`) | pause source of the scanner | `set_scanner_fault`, `validate_raw_format`, `data_extract` | the flag lags behind the live connection |
| HMI (`hmi.*`) | five condition slots, the one shown | set, clear, expire, repaint, buzzer | five owners in any order, expiry across the wrap |
| Configuration (`config_manager.*`) | timing, cavity count, NVS, queue of confirmations | `set_config_value`, `parse_config_barcode`, the queue's service | changed at any moment; a barcode during the display of the last one |
| Label generator (`qr_generator.*`) | none | `generate_traceability_qr`, `validate_final_qr` | date and shift from the clock, serial from a counter reset elsewhere |
| RTC (`rtc_driver.*`) | the DS3231's registers | read, set, validity | may fail at any read; BCD |
| Time sync (`time_sync.*`) | WiFi credentials | `timesync` | blocks longer than the watchdog allows; shares the WiFi mode |
| Storage (`storage_manager.*`) | LittleFS | space check, `resetdata`, listing | flash full, failing, formatted or not mounted |
| Console (`command_console.*`) | line buffer | settime, setconfig, print, reset, reports | changes clock and configuration under production |
| Watchdog, web portal, RGB status, diagnostics | little | output, reset | the bound on a pass of `loop()`; a timer that already runs; the WiFi mode |

Interactions:

- `loop()` and the callback meet in `system_state`, `printed_count` and the
  printer link. Nothing in `loop()` calls the scanner library after
  `usb_scannerInit()`, and its source is not in the repository, so whether the
  callback may run while `loop()` runs is unknown. `ProductionCycle` has a
  constant for it, `LoopRunsDuringScan`, and every result says which value it
  is for.
- Both fault setters feed one pause (`window_pause_recompute`) and the
  machine's WAIT/ERROR decision (`system_fault_recompute`).
- Closing a window folds OK and NG into the books, writes the checkpoint and
  applies a rollover that was deferred.
- Each state change, fault, rejection and config result owns a slot of the
  MESSAGE line.

What makes the components correct: a window is paused exactly while a fault is
flagged, its time is exact, and its count is its own; each closed window is booked once, in one shift, and
survives a power failure; serials follow the parts of the shift; a label is sent
only to a printer that was NORMAL and carries the whole part number; faults are noticed and
cleared in the end; the line shows the highest condition; what was confirmed is in
force; the watchdog ends a hang and nothing else. The hazards behind these, each at its line, are in `PROJECT.json`.

## 2. Modules

### `InspectionStopwatch`: what the state machine promises

A stopwatch without clock arithmetic: off until the first label, then *open* and
*rest* in turn. It runs only while no fault is known, and an open phase ends
only when the time is up with no fault, or when every cavity has its label.

### `ProductionCycle` (and `MCProductionCycle`)

The code of `state_machine.cpp`, the fault setters, `onBarcodeScanned()` and the
production part of `loop()`.

- `loop()` is cut at each access to shared state: `loop_pc` goes through `poll`,
  `scanner`, `fault`, `latch`, `close`, `cycle`. `scanner`, `fault` and `latch`
  are the three reads of `barcode_status` (`main.ino:335-347`).
- The callback is cut where it waits: `prepoll` (gate 2), `postpoll` and
  `limit`. `ScanStart` stands for every gate that passes before the first wait;
  a rejected scan changes nothing this module has.
- `window_pause_recompute()` is the operator `PauseRecompute`; it takes the
  state, faults and accumulator the enclosing step ends with, because the code
  calls it after assigning them. `system_fault_recompute()` uses the live
  connection, as the code does, while the pause uses the flag.
- The printer's health and the scanner's plug change at any time. `millis()`
  counts modulo `MillisMod`.
- A fault setter is one step, with the recomputations it calls. `FaultSetters` has
  them statement by statement.

### `FaultSetters`

`set_printer_fault()`, `set_scanner_fault()` and `window_pause_recompute()` in two
tasks, cut at each access to a shared variable: the flag, the two flags read into
`should_pause`, the test of `window_currently_paused`, the assignment to it. It asks
what the atomic setters of `ProductionCycle` leave open: what if the scan callback
has a task of its own and preempts `loop()` inside a setter.

### `ShiftBook`: what the books promise

A page of windows: a window enters the running page when it closes, a page is
turned whole and only between windows. The promise ends with the first power
failure; what holds beyond it is stated in `ShiftLedger`.

### `ShiftLedger`

`shift_manager.cpp`, the recovery in `setup()`, the serial of a label, the
display's STICKER, and `settime`, `timesync`, `resetdata`. The totals are sums over
windows in the code; the model keeps the set of windows beside the sum `ok_total`,
which tells a lost window from one that is booked twice. `home`, `folded`, `labels`
and `seen` are history: the shift each window opened in, the windows closed, the
labels printed with their serial, the minute of the last check. `pc` stops between
the checkpoint, the finalized line and the second checkpoint of a rollover, and
`Crash` may come at each of these points (power failure, watchdog or `reboot`).
`Boot` is `setup()`: `Resumes` decides between the checkpoint's totals and a
finalized line, `BootCounter` and `BootSticker` are the serial and the field it
leaves. `partition` is what LittleFS finds: `MountFlash` formats a damaged one and
goes on without an absent one, with the shift known and the record undated
(`main.ino:53-79`). With `FlashMayFail` a partition may be damaged or absent at any
boot and each write may be refused for want of space (nothing changes) or fail after
the file was opened (the checkpoint is truncated). `SetClock` also stands for the
write that could not be verified: the clock may then show anything and the shift
stays.

### `PrinterLink`

`poll_printer_status()`, the background poll and its two services, and the three
callers of a poll. A reply is one byte with no sign of the request it answers:
`requests` counts the unanswered ones, `transit` holds replies that were formed and
have not come in, `rx` the bytes that have. A flush reads `rx` away and cannot reach
`transit`. The background poll and the console are in `loop()`, the scan's polls in
the callback. `normal_live` and `normal_since` are history: the printer was NORMAL
since the present poll before a print began, or since a request last found the line
quiet.

### `LabelFormat`

The text of one scan over its three buffers: `onBarcodeScanned()` copies the
barcode into `barcode_data`, `validate_raw_format()` and `data_extract()` read it,
`generate_traceability_qr()` prints into `final_qr`, `validate_final_qr()` decides.
A text is a sequence of the delimiter `*`, the label's own `/` and the
`OtherCharacters`, of which one stands for all in the run and `@` is a second one in
`AlternateFormat.cfg`. The two static buffers keep their last content, so the
barcodes of a behaviour follow one another. Only the part number is ever printed,
so `Key` lets at most one `/` stand in it and none behind.

### `ConfigStore`

`set_config_value()`, `load_config_from_nvs()` and the callers of both: console,
barcode, `resetconfig`, boot. The code's durations are milliseconds computed in 32
bits from values given in minutes or seconds; `Long` is that width, `Confirm` keeps
what the user was told next to what the code stored. NVS is a function from keys to
values that may be absent, and each write may fail without notice (its result is
not looked at). `mold_cavity` and `last_cavity_sent` are the display's field and
what `loop()` believes it shows.

### `Connectivity`

Everything that makes one pass of `loop()` long, over the things it shares: the
WiFi mode (`timesync` and the portal), the clock's registers and stop flag
(`timesync` and `settime`), and the watchdog. `pc` stands in a wait (connect, NTP,
print, dump) or between the bus transfers of a clock set; `waited` and `elapsed`
count half seconds since the wait began and since the watchdog was fed. A wait may
end, run into its timeout or hang. `ArmWatchdog` has the three outcomes of
`esp_task_wdt_init()`: armed as configured, armed by a timer that already runs with its
own timeout and panic setting, or not armed. `Reset` is what any restart leaves: no
credentials (`wifi_creds_load()` is called nowhere), no portal, radio off.

### `HmiMessages`

The condition registry of `hmi.cpp` and the queue of confirmations of
`config_manager.cpp`. Severities are fixed per owner in the code, so the slots are
the numbers 0 to 4 in their order. Time passes between the services, up to `MaxLag`
ticks, and between the two reads of `millis()` in `confirm_queue_advance()`, so a slot
may be past its time before a service looks at it, also across a wrap.

### `..._proofs`

`ProductionCycle`, `PrinterLink`, `LabelFormat`, `ConfigStore`, `Connectivity` and
`HmiMessages` each have one module with their theorems. The ledger has two:
`ShiftLedger_proofs` for what holds whatever the hardware does and for
`NothingLost`, `ShiftLedgerShifts_proofs` for what relates windows to the shifts
they opened in, and for the refinement.

Definitions named `Wrong...` stand before the definition they are a mistaken
form of; they show that a property notices that mistake and are used by no
specification.

## 3. What the runs show

| Run | Checks | Shows |
|---|---|---|
| `production_safety` | count and print invariants, refinement of `InspectionStopwatch` | with the callback and `loop()` taking turns, across wraps of `millis()` and changes of the cavity count |
| `production_concurrent` | types, pause, WAIT, three liveness properties | with `loop()` running during the callback's waits |
| `ledger` | record, label and STICKER invariants, `NothingLost`, refinement of `ShiftBook`, `RolloverCatchesUp` | two days, boundaries at any point of a window, up to two power failures at any point, also between the writes of a rollover |
| `ledger_hardware` | `PendingOnlyInWindow`, `NoRolloverUnderOpenWindow`, `LinesDated` | failing RTC, writes that fail, a partition damaged or absent at a boot, one clock set verified or not, one power failure |
| `hmi_registry` | types, line, queue, expiry | five owners in any order over several wraps of `millis()`, passes of different length |
| `printer_link` | `PrintAfterNormal`, `DeadPrinterFlagged`, `RecoveryNoticed` | late and lost replies, replies under way during a flush, two tasks that poll at the same time |
| `label_format` | `LabelCarriesWholePart` | every barcode up to one character past the buffer, one after the other |
| `config_store` | `ConfirmedSettingsHold`, `CavityGetsShown` | values at the edges of their ranges and of 32 bits, failing NVS, restarts |
| `connectivity` | radio, portal, `LoopComesAround` | every command order, network and bus failure, hang; a watchdog armed, inherited or missing |

The type invariants of production, ledger and HMI, which hold because of the code,
are checked by the runs; those of the other modules, whose bounds are mostly the
model's own, are only proved.

Three runs show a disagreement between the code and a text of the repository:

| Run | What TLC finds |
|---|---|
| `booked_twice` | A rollover outside a window leaves the old shift's checkpoint in flash; a restart before the next close finalizes the same windows again. |
| `stale_reply` | A scan takes the link while the background poll's reply is under way. The flush cannot remove it; it comes in during the live poll and passes for its answer, and the label is sent to a printer that has not been NORMAL since that poll began. |
| `watchdog_fires` | `timesync` with the network out of reach waits up to 20 s inside one pass of `loop()`; the watchdog resets the controller after 8. |

### Further configurations

Each of these refutes one statement of the repository, or one expectation, on the
same modules. They are not among the runs of `PROJECT.json` and are there to
reproduce a trace; the module's passing run states what holds nevertheless.

| Configuration | Property | What TLC finds |
|---|---|---|
| `MisdatedRecord` | `RecordNamesItsShift` | A night shift whose rollover waits for a window that stays open past midnight (a paused one may) is dated with the day of the last check, not the day it began (`shift_manager.cpp:319`, `readme.md:241-242`). |
| `UndatedLine` | `EveryLineDated` | A shift first determined by `settime` never gets a record date: the check anchors only what it determines itself (`shift_manager.cpp:339-349`). |
| `PrintInCycle` | `CyclePrintsNothing` | If `loop()` goes on while the callback waits, it may close the window between the test of the state and the count, and the label is printed in CYCLE_TIME (`production_manager.cpp:61`, `148`; `readme.md:148-151`). |
| `PauseRace` | `PauseAgreesAtRest` | If the callback preempts `loop()` inside a fault setter, a window may run with a fault flagged, or stay paused without one, against `state_machine.h:29-31`. `FaultSetters.cfg` passes: the next call that runs alone puts it right (`LoneCallRepairs`). |
| `RejectStands` | `RejectLeavesInTime` | A rejection due at 0, or in the last pass before the wrap of `millis()`, stands for up to 49.7 days (`hmi.cpp:70`). |
| `AlternateFormat` | `AlternateFormatAccepted` | `config.h:44` calls the `@` format "also accepted"; no code accepts it. |
| `OverflowConfirmed` | `ConfirmedIsInForce` | A time is confirmed whose minutes or milliseconds overflow: `CFG:CYCT:71582790` puts 104 s in force, `setconfig cycletime 4294968` 704 ms. |
| `UnsavedConfirmed` | `ConfirmedIsPersisted` | A setting whose write to NVS failed is confirmed (`config_manager.cpp:45`, `config_manager.h:24`). |
| `CavityBlank` | `CavityAlwaysShown` | With 255 cavities MOLD_CAVITY stays blank after a restart (`main.ino:409`). |
| `WatchdogInherited` | `ArmedWatchdogResets` | "already initialized, harmless" (`watchdog.cpp:15`): a timer that already runs keeps its timeout and panic setting, and with panic off a hang is never ended. |
| `CredentialsLost` | `CredentialsSurvive` | `readme.md:283-284` says `wifi_creds_load()` is called from `setup()`; the call is commented out (`main.ino:37`). |

Seen while modelling and kept out of the runs:

- The checkpoint is resumed when its shift *letter* fits, whatever its date
  (`main.ino:104`), so two days of one shift may be added up; day and night never are
  (`NoMixOfDayAndNight`). `settime` across a boundary stores the new shift without a
  rollover. `OneShiftPerRecord` is therefore stated up to the first power failure
  and checked without clock sets.
- The serial comes back with its value at the last close, so serials of the window
  open at a power failure are used again; and after a boundary inside a window
  labels of the new shift continue the old serials until the deferred reset.
  `SerialsReusedOnlyAfterLoss` says there is no third case. A label names day, month
  and shift letter, so the small hours of one night shift and the next evening may
  share label texts; the repository makes no claim of uniqueness.
- A write of a finalized line that fails (disk full) resets the totals all the same.
- A barcode of more than 49 characters is cut before it is validated, so the
  overlong case in `validate_raw_format` cannot arise and a five-field barcode may
  pass by being cut to four. The printed label still has the whole part number.
- `timesync` switches the radio off under a running portal, which goes on
  answering RUNNING; `webportal start` then refuses until `webportal stop`.
- `settime` accepts hour 30 or minute 75, which pass through BCD unchanged and so
  are verified; `setconfig` accepts 7:75 and -1:90 as shift times.
- `ds3231_set_time()` returns true even when the stop flag was not cleared; the
  read-back that both callers do is what notices.
- The watchdog is armed at the end of `setup()`: a hang before it is never reset.
- The portal's pages show "Unknown" for SYS_ERROR (`web_portal.cpp:27-34`).
- A scanner that returns between the second and the third read of
  `barcode_status` stays flagged until its next edge, and one that is unplugged
  between boot and the first pass is never flagged. `HealthyLineLeavesError` holds
  all the same, because the background poll recomputes the state from the live
  connection; `WindowsEnd` therefore assumes that no scanner fault *stays flagged*,
  not that the scanner is connected.
- A confirmation that is due beyond the wrap of `millis()` is taken down at once.
  `ConfirmationsInTurn` speaks of the others only.

### Bounds, and why they are enough

- `MillisMod` is 3, 4 or 8 with durations of 1 or 2: each phase, pause and expiry
  meets the wrap at each of its points. `RunBound` in `Tick` says that no running
  window and no mold cycle lasts 49.7 days; a *pause* may last
  through any number of wraps, since the counted time is a difference modulo
  `MillisMod` that does not change during it.
- Two cavities make an early close, a partial window and (with one and two) a
  cavity count lowered under an open window.
- The ledger's day has three minutes, one for each kind: before shift A, in A, in
  B. `LastMinute = 5` covers a night shift over midnight and the next day's A;
  three windows suffice to have one booked, one in the totals and one open.
  `ledger_hardware` stops at minute 3 with two windows, since its failures
  multiply the states and its properties are about one window.
- `MaxSerial`, `MaxCrashes`, `MaxClockSets` and `MaxRequests` bound counters only.
- Two power failures are needed for a checkpoint written after a recovery to be
  recovered again.
- `LabelFormat` scales the buffers 50, 20 and 30 to 11, 4 and 10 with a date of one
  digit and serials of one or two. As in the code a label may fit, fill its buffer
  exactly (and be refused) or be cut, depending on the part and on the serial's
  length, and a barcode may pass the raw buffer by one.
- `ConfigStore` scales 2^32 to 256, sixty seconds to 3, a thousand milliseconds to
  5, a day to 8 minutes and 255 cavities to 5; `Patterns` are the bit patterns that
  hit zero, one, a range's edge, and a product that wraps. Three keys stand for
  their kinds: a duration, the cavity count, a shift time.
- `Connectivity` uses the real durations in half seconds: watchdog 16, connect 40,
  NTP 20, one print 2 (two polls of half a second). The longest dump, 12, and the
  5 s (10) of an inherited watchdog, the framework's usual value, are examples; no
  property depends on which they are.
- `QueueLen = 2` with up to three tokens fills and overflows the queue; two texts
  tell apart what is shown, of which ROUTINE takes one. `MaxLag = 1` is the longest
  a pass lasts: the modulus is more than twice what a slot may be late, so that
  "expired" and "not yet due" can be told apart.

### Assumptions built into the models

- A mold cycle is longer than the one-second interval of the shift check
  (`OpenByTimer`), and a minute does not pass without a check (`ClockAdvance`).
- Whether `loop()` goes on during a scan depends on the task the scanner library
  calls `scanner_on_text_callback()` in, on its priority and core, none of which is
  in the repository. Nothing in `loop()` calls the library after
  `usb_scannerInit()`, so there is another task; `LoopRunsDuringScan` leaves open
  whether the two interleave. `CountBelongsToWindow`, `PrintsOnlyInWindow` and the
  refinement of the stopwatch are claimed for FALSE only (`PrintInCycle.cfg` is the
  refutation of what they stand for with TRUE); types, pause and WAIT
  for both, liveness and `PrinterLink` for TRUE. `ShiftLedger` takes turns.
- The fault setters and `enter_state()` are one step in `ProductionCycle`, although
  `state_machine.cpp` takes no lock; `FaultSetters` takes them apart, store by
  store, and shows what then becomes of the pause.
- In `PrinterLink` a healthy printer answers within the timeout, others as late as
  they like. That two tasks both see the one byte there is and one of them reads -1
  is left out.
- A line of `ShiftLedger`'s files is written whole or not at all, except that a
  checkpoint whose write fails has been emptied by its opening.
- In `Connectivity` a register file is the time written, another time or torn;
  that BCD is its own inverse for fields in range is assumed (`Stored`). A watchdog
  whose initialization fails is one that is not armed.
- In `ConfigStore` a failed `clear()` clears nothing.
- `ProductionCycle` lets any background poll have a result or none; that results
  keep coming is what `PrinterLink` shows.

### Fairness

- `ProductionCycle`: `WF(Loop)` because `loop()` is called forever, `WF(ScanFinish)`
  because each wait of the callback ends by its timeout, `WF(Tick)` because time
  passes, `SF(LoopPollResult)` because each background poll is answered or times
  out, which the polls of `PrinterLink` do.
  Deadlines of the environment are not assumed: scanner and printer may flap.
  If the callback excluded `loop()`, scans that follow one another without a gap
  could starve it; that is why liveness is checked with `LoopRunsDuringScan`.
  There the cavity count is fixed at two.
- `ShiftLedger`: weak fairness of `Boot`, `ShiftCheck` and the two steps of a
  rollover. None for scans, the clock or the *end of a window*: one that a printer
  fault has paused stays open while the printer stays dead, and `RolloverCatchesUp`
  allows the deferral that waits for it for ever.
- `HmiMessages`: weak for the two services that `loop()` calls in each pass,
  strong for `Tick`, since no rate of slot changes stops time.
- `ConfigStore`: weak for the end of `loop()` that shows the cavity count.
- `Connectivity`: weak for `Boot`, the bus transfers, the passing of time and the
  watchdog. No wait is assumed to end by itself, so `LoopComesAround` rests on the
  watchdog alone, and is claimed where one is armed that panics.
- `PrinterLink`: weak for `loop()`, the console, the callback, the fate of a request
  and the arrival of a byte, strong for `Tick`. `RecoveryNoticed` says that the flag
  is found cleared again and again once the printer stays NORMAL: two tasks may go
  on taking each other's replies, and each poll that times out sets it once more.

## 4. What is proved

Every invariant and every action property of the passing runs of `PROJECT.json`,
and both refinements, are theorems: TLC checks them on the instances above, TLAPS for every
value of the constants that the module's `ASSUME` allows. Each component has its
proofs in `<Module>_proofs`. The inductive invariants named below were checked with
TLC on the runs' constants before they were proved. All theorems are about `Spec`;
none needs fairness.

### `ProductionCycle_proofs`

| Theorem | For | Says |
|---|---|---|
| `TypeCorrect` | any `LoopRunsDuringScan` | `TypeOK` |
| `PauseFollowsFaults` | any | `PausedExactlyWhileFaulted` |
| `WaitsWithReadyPrinter` | any | `WaitMeansPrinterReady` |
| `CountOfOneWindow`, `CountsOnlyInWindow` | `~LoopRunsDuringScan` | the count is zero outside a window, and grows only in one |
| `ImplementsStopwatch` | `~LoopRunsDuringScan` | `Spec` implements `InspectionStopwatch!Spec` |

`PausedExactlyWhileFaulted` is inductive given `TypeOK`: each fault setter and
`EnterWindow` recomputes the pause from the values the step ends with, and every
other step into a window comes from one. `WaitMeansPrinterReady` likewise.
`CountBelongsToWindow` is not inductive alone: `ScanPrint` counts at `prepoll`,
where the machine might be anywhere. `TurnInv` adds `ScanKeepsItsWindow`: at
`prepoll` the machine waits or has a window open, at `postpoll` and `limit` it has
one with a count; that is stable because `loop()` cannot move meanwhile, and the
steps the callback shares with it (faults) leave an open window open.
`ScanKeepsItsWindow` is a means of the proof and no result: when the two interleave
it is false, and so are the three theorems that rest on it.

`ImplementsStopwatch` rests on lemmas of modular arithmetic: the counted time is
`(now - start) - accumulated pause` modulo `MillisMod`, it does not change while
paused, resuming adds exactly the pause, and a tick of a running phase adds one
(`RunTicks`, `RunResumes`, `FaultKeepsRun`). `NextRefines` maps each step to a
step of the stopwatch or a stutter.

### `ShiftLedger_proofs` and `ShiftLedgerShifts_proofs`

| Theorem | For | Says |
|---|---|---|
| `TypeCorrect` | anything | `TypeOK` |
| `SerialsMatch`, `StickerCorrect` | anything | serial and STICKER count the parts of the shift |
| `DeferralEnds` | anything | `PendingOnlyInWindow` |
| `RecordAnchored` | anything | `LinesDated` |
| `TotalsStandUnderWindow` | anything | `NoRolloverUnderOpenWindow` |
| `NothingIsLost` | RTC readable, flash sound | `NothingLost` |
| `DayAndNightApart` | RTC readable, no clock set | `NoMixOfDayAndNight` |
| `OneShiftEach` | RTC readable, no clock set, `UsualShifts` | `OneShiftPerRecord` |
| `SerialsNotReused` | RTC readable, flash sound, no clock set, `UsualShifts` | `SerialsReusedOnlyAfterLoss` |
| `LedgerKeepsBook` | flash sound | `Spec` implements `ShiftBook!Spec` |

"Anything" is any number of power failures at any point, of clock sets verified or
not, a failing RTC, a partition that does not mount at some boots and writes that
fail. "Flash sound" is a partition that mounts and fails no write. The hypotheses of
the others are the constants with which the runs check the same property:
`~RtcMayFail`, `~FlashMayFail`, `MaxClockSets = 0`. They are needed: without flash no
line is written, a check whose RTC read fails lets a boundary pass, and `settime`
across a boundary changes the shift without a rollover (see section 3). `UsualShifts` says that shift A begins before shift B and
both within the day, as the defaults 8:00 and 20:00 do; the code lets `setconfig`
turn them around, and then it is never A.

- `CoreInv` is `TypeOK` with `SerialInv` and `PendingInv`. The types alone are not
  inductive: that the sums stay in range rests on the serial being their sum, that
  in turn on what a checkpoint gives back and on the count being zero outside a
  window, and a rollover under way (`pc` in `append` or `persist`) on one that was
  deferred.
- `RecordsDated`: where flash is mounted a known shift has a date, until a clock is
  set. At a boot without flash the shift is known and its record has no date
  (`main.ino:53`, `64-79`); no line is written before the next boot, and that one
  anchors it.
- `LossInv`: a closed window is in a finalized line, or in the checkpoint *and*,
  while the power lasts, in the totals, so that the next checkpoint cannot drop it;
  and while the power lasts a shift with a date is known, so that no checkpoint is
  written unreadable.
- `OpenedInv`: the books name only windows that were opened. `LetterInv`: totals,
  checkpoint and lines hold windows of their own letter, and the books know the
  letter of the last check except between a close and the check that follows it,
  when no window can open.
- `PageInv` holds up to the first power failure: `minute` is the minute last
  checked or the one after it, so no boundary goes unseen; without a deferred
  rollover every window in hand is of the shift of the last check.
- `OrderInv`, `CounterInv`: windows open in the order of their shifts (`Rank`), and
  for the shift the RTC shows the counter in RAM and the one in the checkpoint are
  at or past every serial of a closed window. A shift that is over never comes
  back, so older labels are out of the question.
- For `LedgerKeepsBook`, `BookInv` says that before the first power failure there is
  nothing to resume; a close, or the write of a line, maps to the book's steps.

### The other components, without hypotheses

| Module | Theorem | Says |
|---|---|---|
| `PrinterLink_proofs` | `TypeCorrect` | types; the wire holds `MaxRequests` |
| | `NoEarlierReplyPrints` | `PrintAfterNormal` |
| `LabelFormat_proofs` | `TypeCorrect` | types, which follow from `Cut` |
| | `RefusedForItsFields` | `FourFieldsExactly`: `@` delimits nothing, whatever `config.h:44` says |
| | `LabelsAreWhole` | `LabelCarriesWholePart` |
| `ConfigStore_proofs` | `TypeCorrect`, `SettingsHold` | values fit their variables; `ConfirmedSettingsHold`, which leaves out what does not fit the width |
| `HmiMessages_proofs` | `TypeCorrect` | `TypeOK` |
| | `HighestIsShown`, `OneAtATime` | `MessageIsHighest`, `ConfirmationsInTurn` |
| `Connectivity_proofs` | `TypeCorrect` | types; the ranges of times are `Tick`'s guards |
| | `RadioRests`, `PortalServes` | `RadioOffAtRest`, `PortalMeansAccessPoint` |

- `PrinterLink`: `SinceInv` says that the printer has been NORMAL since a request
  last found the line quiet whenever a NORMAL can still be formed, is on its way or
  is unread. A request reads away what has come in, so it finds a quiet line unless
  something is under way; a reply under way at that moment is what
  `StaleReply.cfg` shows to get through.
- `LabelFormat`: `FourFields` shows for texts of any length that the scan of
  `validate_raw_format()` and the definition by segments agree: two neighbouring
  edges are an empty segment. For the label, `IsPart` (how many characters precede
  the first delimiter) is carried along as the barcode is keyed in, because a least
  element of a set is an induction; the cut barcode still has its first delimiter,
  and a part that was itself cut makes the label too long to be accepted. That last
  step is the assumption on the buffer sizes (20, 30, six digits, at least four).
- `ConfigStore`: `Long(n)` differs from `n` by a multiple of 2^32 (`LongWraps`), so
  a stored number of minutes in range that was meant as such *is* the one meant, and
  a duration's milliseconds are, modulo 2^32 (`MinutesMeant`, `MillisMeant`).
  `StoreInv` adds that NVS holds the same for each key whose last write did not
  fail; that is what carries `ConfirmedSettingsHold` over a restart.
- `HmiMessages`: the ROUTINE slot always has a text and never expires, so the
  highest active slot exists (`HighestActive`). `TurnInv`: while a confirmation is
  active its slot expires when the queue moves on, or one tick before, since the two
  read `millis()` one after the other; the queue is due at most `ConfigMs` ahead
  modulo the width of `millis()`, or only since its service last ran (`Lag`).
- `Connectivity`: `RadioInv` gives the station to `timesync` alone until it answers
  and the access point to the portal.

### Only model-checked

All liveness: `WindowsEnd`, `HealthyLineLeavesError`, `OutageHoldsProduction`,
`RolloverCatchesUp`, `RejectsEnd`, `ConfirmationsEnd`, `DeadPrinterFlagged`,
`RecoveryNoticed`, `CavityGetsShown` and `LoopComesAround` need fairness, and with
it ENABLED, which the prover does not support. `FaultSetters` and the further
configurations are TLC's alone, and so is the scaling of each width. Results about what a recursion
computes for every input are out of its reach as well; the models have none.

## 5. Not modelled, and the plan

Not modelled, because no state of another component depends on it: the portal's
pages, the RGB colours, diagnostics and reports (pure output), the drawing of TSPL,
how the console puts a line together (200 ms of silence complete one) and its
display test commands, the text of the month file and the two text formats of a
checkpoint, the file the old firmware left, the buzzer. NG totals are the cavities at the close
minus OK and follow the live cavity count on purpose. The bodies of the libraries
are not in the repository.

Plan: what liveness rests on, as safety theorems where that is possible (for
example that an expired window, a due rollover or a due confirmation always finds
its step enabled, stated without ENABLED), and whether the letter rule at boot
keeps days apart once its date is compared too.

## 6. Running it

    tlc -workers 2 -config ProductionSafety.cfg MCProductionCycle
    tlc -workers 2 -config Ledger.cfg ShiftLedger
    tlapm ShiftLedger_proofs.tla

Each run's module and configuration are listed in `PROJECT.json`. The longest is
`hmi_registry`, two minutes and a half on two cores; `ledger` takes a minute and a
half. Deadlock is checked in all of them.
