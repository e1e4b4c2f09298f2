------------------------------- MODULE Connectivity -------------------------------
(***************************************************************************)
(* One WiFi radio for timesync and the web portal, one watchdog over       *)
(* everything that blocks loop(), and the clock that settime and timesync  *)
(* write over a bus that may fail at each transfer: time_sync.cpp,         *)
(* web_portal.cpp, watchdog.cpp, rtc_driver.cpp and their console          *)
(* commands.                                                               *)
(*                                                                         *)
(* Time counts in half seconds, and only inside a wait: the rest of a pass *)
(* of loop() takes none.                                                   *)
(***************************************************************************)
EXTENDS Integers

CONSTANTS
  WatchdogTimeout,        \* WATCHDOG_TIMEOUT_S
  ConnectTimeout,         \* WIFI_CONNECT_TIMEOUT_MS
  NtpTimeout,             \* NTP_SYNC_TIMEOUT_MS
  PrintTime,              \* one poll without a reply and the flush of a label
  DumpTime,               \* MAX_GETFILE_DUMP_BYTES over the console
  Times,                  \* what the clock can show
  DayTimes,               \* those of shift A
  Odd,                    \* fields that do not come back as they were typed
  WatchdogMayFail,        \* esp_task_wdt_init() may fail, and nothing is armed
  InheritedTimeouts       \* those of a timer that runs before setup(), if one does

ASSUME ConnectivityAssumption ==
  /\ {WatchdogTimeout, ConnectTimeout, NtpTimeout, PrintTime, DumpTime} \subseteq Nat \ {0}
  /\ InheritedTimeouts \subseteq Nat \ {0}
  /\ DayTimes \subseteq Times /\ Odd \notin Times
  /\ WatchdogMayFail \in BOOLEAN

VARIABLES
  pc,                     \* where loop() is: between commands, or inside one
  wifi,                   \* WiFi.mode()
  portal_running, routes_registered,
  has_creds,              \* wifi_ssid is not empty
  waited,                 \* the time spent in the present wait
  armed,                  \* loop()'s task is watched
  timeout,                \* of the timer that watches it
  panics,                 \* whether that timer resets the chip
  elapsed,                \* the time since watchdog_feed(), if armed
  rtc,                    \* the time registers of the DS3231
  osf,                    \* its Oscillator Stop Flag
  wanted,                 \* what settime or timesync is writing
  current_shift,
  answer,                 \* the last answer to settime or timesync
  \* history
  blocking,               \* what has blocked loop() since watchdog_feed()
  synced                  \* timesync has switched the radio since webportal_start()

radio == <<wifi, portal_running, routes_registered, synced>>
clock == <<rtc, osf>>
timer == <<armed, timeout, panics>>
watch == <<waited, timer, elapsed, blocking>>
vars == <<pc, radio, has_creds, watch, clock, wanted, current_shift, answer>>

Torn == "torn"            \* registers that hold something else

Registers == Times \cup {Torn}
Limit == [connect |-> ConnectTimeout, ntp |-> NtpTimeout, print |-> PrintTime, dump |-> DumpTime]
Waits == DOMAIN Limit
LongestWait == 1 + CHOOSE n \in {Limit[w] : w \in Waits} : \A w \in Waits : n >= Limit[w]
ClockSteps == {"write", "clear", "verify"}

ShiftOf(t) == IF t \in DayTimes THEN "A" ELSE "B"

(* Definitions named Wrong... are used by nothing: each is the definition  *)
(* after it with a mistake the code could have, which a property must see. *)

Stored(t) == IF t \in Times THEN t ELSE Torn

TypeOK ==
  /\ pc \in {"boot", "loop"} \cup Waits \cup ClockSteps
  /\ wifi \in {"OFF", "STA", "AP"}
  /\ {portal_running, routes_registered, has_creds, armed, panics, osf, synced} \subseteq BOOLEAN
  /\ waited \in 0 .. LongestWait
  /\ timeout \in {WatchdogTimeout} \cup InheritedTimeouts
  /\ elapsed \in 0 .. timeout
  /\ rtc \in Registers
  /\ wanted \in Times \cup {Odd}
  /\ current_shift \in {"none", "A", "B"}
  /\ answer \in {"none", "ok", "error"}
  /\ blocking \in {"nothing", "connect", "print", "dump", "several"}

Init ==
  /\ pc = "boot"
  /\ wifi = "OFF" /\ portal_running = FALSE /\ routes_registered = FALSE /\ synced = FALSE
  /\ has_creds = FALSE
  /\ waited = 0 /\ elapsed = 0 /\ blocking = "nothing"
  /\ armed = FALSE /\ timeout = WatchdogTimeout /\ panics = FALSE
  /\ rtc \in Registers /\ osf \in BOOLEAN
  /\ wanted = Odd
  /\ current_shift = "none" /\ answer = "none"
-----------------------------------------------------------------------------
(* Restarts and the watchdog *)

(* RAM is gone and the radio is off; the DS3231 goes on with its battery.  *)
Reset ==
  /\ pc' = "boot"
  /\ wifi' = "OFF" /\ portal_running' = FALSE /\ routes_registered' = FALSE /\ synced' = FALSE
  /\ has_creds' = FALSE
  /\ waited' = 0 /\ elapsed' = 0 /\ blocking' = "nothing"
  /\ armed' = FALSE /\ timeout' = WatchdogTimeout /\ panics' = FALSE
  /\ wanted' = Odd
  /\ current_shift' = "none" /\ answer' = "none"

(* A power failure or the reboot command; without a battery the clock stops. *)
Restart ==
  /\ pc # "boot"
  /\ Reset
  /\ osf' \in {osf, TRUE}
  /\ UNCHANGED rtc

(* watchdog_init(): esp_task_wdt_init() takes the configuration, or finds  *)
(* a timer that runs already (ESP_ERR_INVALID_STATE), which then watches   *)
(* loop() with the timeout and the panic setting it had, or fails.         *)
ArmWatchdog ==
  \/ armed' = TRUE /\ timeout' = WatchdogTimeout /\ panics' = TRUE
  \/ armed' = TRUE /\ timeout' \in InheritedTimeouts /\ panics' \in BOOLEAN
  \/ WatchdogMayFail /\ UNCHANGED timer

(* setup(): the shift is known if the clock can be read; the watchdog is   *)
(* armed at the end.  wifi_creds_load() is commented out.                  *)
Boot ==
  /\ pc = "boot"
  /\ pc' = "loop"
  /\ ArmWatchdog
  /\ \/ ~osf /\ current_shift' = ShiftOf(rtc)
     \/ UNCHANGED current_shift
  /\ UNCHANGED <<radio, has_creds, waited, elapsed, blocking, clock, wanted, answer>>

Expired == armed /\ panics /\ elapsed = timeout

WatchdogFires ==
  /\ Expired
  /\ Reset
  /\ UNCHANGED clock

Feed ==
  /\ elapsed' = 0
  /\ blocking' = "nothing"

(* The top of loop(), and its shift check; with a window open the new      *)
(* shift is only noted (ShiftLedger).                                      *)
LoopPass ==
  /\ pc = "loop"
  /\ Feed
  /\ \/ ~osf /\ current_shift' = ShiftOf(rtc)
     \/ UNCHANGED current_shift
  /\ UNCHANGED <<pc, radio, has_creds, waited, timer, clock, wanted, answer>>

(* The wait feeds the watchdog, which watchdog.h warns of. *)
WrongTick ==
  /\ pc \in Waits
  /\ waited < LongestWait
  /\ waited' = waited + 1
  /\ UNCHANGED <<pc, radio, has_creds, timer, elapsed, blocking, clock, wanted,
                 current_shift, answer>>

(* Half a second inside a wait; a UART that hangs may take any number.  A  *)
(* timer without panic only reports that it has run out.                   *)
Tick ==
  /\ pc \in Waits
  /\ waited < LongestWait
  /\ ~Expired
  /\ waited' = waited + 1
  /\ elapsed' = IF armed /\ elapsed < timeout THEN elapsed + 1 ELSE elapsed
  /\ UNCHANGED <<pc, radio, has_creds, timer, blocking, clock, wanted, current_shift, answer>>
-----------------------------------------------------------------------------
(* Commands that block: print and getfile *)

StartWait(where) ==
  /\ pc = "loop"
  /\ pc' = where
  /\ waited' = 0
  /\ blocking' = IF blocking = "nothing" THEN where ELSE "several"
  /\ UNCHANGED <<timer, elapsed>>

PrintOrDump ==
  /\ \E where \in {"print", "dump"} : StartWait(where)
  /\ UNCHANGED <<radio, has_creds, clock, wanted, current_shift, answer>>

PrintOrDumpEnds ==
  /\ pc \in {"print", "dump"} /\ waited <= Limit[pc]
  /\ pc' = "loop"
  /\ UNCHANGED <<radio, has_creds, watch, clock, wanted, current_shift, answer>>
-----------------------------------------------------------------------------
(* The web portal *)

(* A failed access point is not switched off again. *)
WrongPortalStart ==
  /\ pc = "loop" /\ ~portal_running
  /\ wifi' = "AP"
  /\ \/ portal_running' = TRUE /\ routes_registered' = TRUE /\ synced' = FALSE
     \/ UNCHANGED <<portal_running, routes_registered, synced>>
  /\ UNCHANGED <<pc, has_creds, watch, clock, wanted, current_shift, answer>>

PortalStart ==
  /\ pc = "loop" /\ ~portal_running
  /\ \/ /\ wifi' = "AP"
        /\ portal_running' = TRUE /\ routes_registered' = TRUE /\ synced' = FALSE
     \/ wifi' = "OFF" /\ UNCHANGED <<portal_running, routes_registered, synced>>
  /\ UNCHANGED <<pc, has_creds, watch, clock, wanted, current_shift, answer>>

(* The portal stays marked as running. *)
WrongPortalStop ==
  /\ pc = "loop" /\ portal_running
  /\ wifi' = "OFF"
  /\ UNCHANGED <<pc, portal_running, routes_registered, synced, has_creds, watch, clock,
                 wanted, current_shift, answer>>

PortalStop ==
  /\ pc = "loop" /\ portal_running
  /\ wifi' = "OFF"
  /\ portal_running' = FALSE
  /\ UNCHANGED <<pc, routes_registered, synced, has_creds, watch, clock, wanted,
                 current_shift, answer>>
-----------------------------------------------------------------------------
(* timesync and settime *)

(* The wifi command: the copy for NVS goes to a namespace never opened. *)
WifiCommand ==
  /\ pc = "loop"
  /\ has_creds' = TRUE
  /\ UNCHANGED <<pc, radio, watch, clock, wanted, current_shift, answer>>

(* do_timesync() takes the radio from the portal if it has it. *)
TimesyncStart ==
  /\ has_creds
  /\ StartWait("connect")
  /\ wifi' = "STA"
  /\ synced' = TRUE
  /\ answer' = "none"
  /\ UNCHANGED <<portal_running, routes_registered, has_creds, clock, wanted, current_shift>>

TimesyncConnected ==
  /\ pc = "connect" /\ waited <= ConnectTimeout
  /\ pc' = "ntp"
  /\ waited' = 0
  /\ UNCHANGED <<radio, has_creds, timer, elapsed, blocking, clock, wanted, current_shift, answer>>

(* Every way out of a clock command: timesync, and only it, has the radio  *)
(* as a station and switches it off.                                       *)
Answer(result) ==
  /\ pc' = "loop"
  /\ answer' = result
  /\ wifi' = IF wifi = "STA" THEN "OFF" ELSE wifi
  /\ UNCHANGED <<portal_running, routes_registered, synced, has_creds, watch, wanted>>

TimesyncFails ==
  /\ pc \in {"connect", "ntp"} /\ waited >= Limit[pc]
  /\ Answer("error")
  /\ UNCHANGED <<clock, current_shift>>

TimesyncFetched ==
  /\ pc = "ntp" /\ waited <= NtpTimeout
  /\ pc' = "write"
  /\ wanted' \in Times
  /\ UNCHANGED <<radio, has_creds, watch, clock, current_shift, answer>>

SetTime ==
  /\ pc = "loop"
  /\ pc' = "write"
  /\ wanted' \in Times \cup {Odd}
  /\ answer' = "none"
  /\ UNCHANGED <<radio, has_creds, watch, clock, current_shift>>

(* ds3231_set_time(): one burst of registers, then the flag. *)
ClockWritten ==
  /\ pc = "write"
  /\ pc' = "clear"
  /\ rtc' = Stored(wanted)
  /\ UNCHANGED <<osf, radio, has_creds, watch, wanted, current_shift, answer>>

(* No acknowledgement: of the address, or in the middle of the burst. *)
ClockNotWritten ==
  /\ pc = "write"
  /\ rtc' \in {rtc, Torn}
  /\ Answer("error")
  /\ UNCHANGED <<osf, current_shift>>

(* The flag is cleared if the bus allows; the function returns TRUE anyway. *)
FlagStep ==
  /\ pc = "clear"
  /\ pc' = "verify"
  /\ osf' \in {FALSE, osf}
  /\ UNCHANGED <<rtc, radio, has_creds, watch, wanted, current_shift, answer>>

(* ds3231_read_time() with its test of the flag, and the comparison *)
ReadsBack == ~osf /\ rtc = wanted

Verified ==
  /\ pc = "verify" /\ ReadsBack
  /\ Answer("ok")
  /\ current_shift' = ShiftOf(rtc)
  /\ UNCHANGED clock

(* The comparison fails, or the bus does. *)
NotVerified ==
  /\ pc = "verify"
  /\ Answer("error")
  /\ UNCHANGED <<clock, current_shift>>

(* A minute passes between any two steps. *)
ClockAdvance ==
  /\ rtc \in Times
  /\ rtc' \in Times
  /\ UNCHANGED <<pc, osf, radio, has_creds, watch, wanted, current_shift, answer>>
-----------------------------------------------------------------------------
Timesync == TimesyncStart \/ TimesyncConnected \/ TimesyncFails \/ TimesyncFetched
ClockStep == ClockWritten \/ ClockNotWritten \/ FlagStep \/ Verified \/ NotVerified

Next ==
  \/ Boot \/ Restart \/ WatchdogFires \/ LoopPass \/ Tick
  \/ PrintOrDump \/ PrintOrDumpEnds
  \/ PortalStart \/ PortalStop
  \/ WifiCommand \/ Timesync \/ SetTime \/ ClockStep
  \/ ClockAdvance

Spec == Init /\ [][Next]_vars

(* setup() ends, the bus answers or not, time passes, and the watchdog is  *)
(* hardware.  No wait is assumed to end by itself.                         *)
FairSpec == Spec /\ WF_vars(Boot) /\ WF_vars(ClockStep) /\ WF_vars(Tick) /\ WF_vars(WatchdogFires)
-----------------------------------------------------------------------------
(* "WiFi off otherwise", "this device is offline the rest of the time":    *)
(* between commands the radio is off, or the portal's.                     *)
RadioOffAtRest ==
  pc = "loop" => wifi = "OFF" \/ (wifi = "AP" /\ portal_running)

(* A portal that says RUNNING has its access point and its pages, unless   *)
(* timesync has taken the radio since.                                     *)
PortalMeansAccessPoint ==
  portal_running /\ ~synced => wifi = "AP" /\ routes_registered

(* readme.md:280-285: credentials "silently didn't survive a reboot.       *)
(* wifi_creds_load(), called once from setup(), now loads them from NVS":  *)
(* once there are credentials they stay.                                   *)
CredentialsSurvive == [][has_creds => has_creds']_vars

Hung == pc \in Waits /\ waited > Limit[pc]

(* "It only fires on a genuine hang, not on normal operation": a pass with *)
(* one command is reset only in a wait longer than that wait can take.     *)
WatchdogOnlyOnHang ==
  Expired /\ blocking # "several" => Hung

(* watchdog.h:6-10: "If loop() ever fails to return within                 *)
(* WATCHDOG_TIMEOUT_S ... the ESP-IDF task watchdog panics and resets the  *)
(* chip", of every controller that reports its watchdog armed.             *)
ArmedWatchdogResets == []<>(pc = "loop" \/ (pc # "boot" /\ ~armed))

(* "The chip resets itself instead of sitting frozen": whatever hangs      *)
(* inside a pass of loop(), a watchdog with its panic enabled brings       *)
(* loop() back, also one that was there before watchdog_init().            *)
LoopComesAround == []<>(pc = "loop" \/ (pc # "boot" /\ ~(armed /\ panics)))
=============================================================================
