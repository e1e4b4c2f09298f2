------------------------------- MODULE ConfigStore -------------------------------
(***************************************************************************)
(* The runtime configuration: set_config_value() with the three ways into  *)
(* it (setconfig, resetconfig, a config barcode), the copy in NVS that     *)
(* boot loads, and the MOLD_CAVITY field that shows one of the values.     *)
(*                                                                         *)
(* A setting is kept three times: in RAM, in NVS, and by the person who    *)
(* was told "OK".  Values are C integers of their width: a long is signed  *)
(* and wraps at LongMod, and so do the milliseconds made of it.            *)
(***************************************************************************)
EXTENDS Integers

CONSTANTS
  Keys,                   \* the keys in use
  LongMod,                \* 2^32
  MinuteSeconds,          \* 60
  SecondMillis,           \* 1000
  HourMinutes,            \* 60
  MinutesPerDay,          \* 1440
  CavityMax,              \* 255, which is also what last_cavity_sent starts with
  DefaultSeconds, DefaultCavity, DefaultShift,
  Patterns,               \* bound: the numbers people type, modulo LongMod
  NvsMayFail              \* a write to NVS may fail

Durations == {"cycletime", "inspwindow"}
ShiftKeys == {"shift_a", "shift_b"}

(* A long: the mathematical integer, wrapped. *)
Long(n) == LET r == n % LongMod IN IF 2 * r < LongMod THEN r ELSE r - LongMod

ASSUME ConfigAssumption ==
  /\ Keys \subseteq Durations \cup ShiftKeys \cup {"cavity"}
  /\ {LongMod, MinuteSeconds, SecondMillis, HourMinutes, MinutesPerDay, CavityMax,
      DefaultSeconds, DefaultCavity} \subseteq Nat \ {0}
  /\ DefaultShift \in 0 .. MinutesPerDay - 1
  /\ DefaultCavity < CavityMax
  /\ 2 * MinutesPerDay < LongMod
  /\ DefaultSeconds * SecondMillis < LongMod /\ 2 * DefaultSeconds < LongMod
  /\ Patterns \subseteq 0 .. LongMod - 1
  /\ NvsMayFail \in BOOLEAN

VARIABLES
  ram,                    \* g_cycle_time_s ... g_shift_b_min
  nvs,                    \* what cfg_prefs holds, or Absent
  mold_cavity,            \* the field on the display
  last_cavity_sent,
  \* history
  told,                   \* what was last confirmed for a key, in milliseconds if a time
  unsaved                 \* the keys whose last write to NVS failed

vars == <<ram, nvs, mold_cavity, last_cavity_sent, told, unsaved>>

Numbers == {Long(n) : n \in Patterns}
Absent == -1
Blank == -1
-----------------------------------------------------------------------------
(* Values *)

Default == [k \in Keys |-> CASE k \in Durations -> DefaultSeconds
                             [] k = "cavity" -> DefaultCavity
                             [] k \in ShiftKeys -> DefaultShift]

(* Definitions named Wrong... are used by nothing: each is the definition  *)
(* after it with a mistake the code could have, which a property must see. *)

InRange(k, v) ==
  CASE k \in Durations -> v > 0
    [] k = "cavity" -> v > 0 /\ v <= CavityMax
    [] k \in ShiftKeys -> v >= 0 /\ v < MinutesPerDay

(* What loop() and compute_shift() compare with: the window and the cycle  *)
(* last (unsigned long)g_..._s * 1000UL milliseconds.                      *)
InForce(values, k) ==
  IF k \in Durations THEN (values[k] * SecondMillis) % LongMod ELSE values[k]

(* load_config_from_nvs() *)
Loaded == [k \in Keys |-> IF nvs[k] = Absent THEN Default[k] ELSE nvs[k]]
-----------------------------------------------------------------------------
(* What fits the variable and means something to loop(): uint32_t, uint8_t *)
(* and a minute of the day.                                                *)
Range(k) == CASE k \in Durations -> 1 .. (LongMod - 1) \div 2
              [] k = "cavity" -> 1 .. CavityMax
              [] k \in ShiftKeys -> 0 .. MinutesPerDay - 1

TypeOK ==
  /\ {ram, nvs, told} \subseteq [Keys -> Int]
  /\ \A k \in Keys : ram[k] \in Range(k) /\ nvs[k] \in Range(k) \cup {Absent}
  /\ mold_cavity \in {Blank} \cup 1 .. CavityMax
  /\ last_cavity_sent \in 1 .. CavityMax
  /\ unsaved \subseteq Keys

Init ==
  /\ ram = Default
  /\ nvs = [k \in Keys |-> Absent]
  /\ mold_cavity = Blank
  /\ last_cavity_sent = CavityMax
  /\ told = [k \in Keys |-> InForce(Default, k)]
  /\ unsaved = {}

(* What boot believes to have shown is a count that can be configured. *)
WrongRestart ==
  /\ ram' = Loaded
  /\ mold_cavity' = Blank
  /\ last_cavity_sent' = DefaultCavity
  /\ told' = [k \in Keys |-> IF k \in unsaved THEN InForce(Loaded, k) ELSE told[k]]
  /\ unsaved' = {}
  /\ UNCHANGED nvs

(* A restart loses RAM; what was never saved is back at its old value. *)
Restart ==
  /\ ram' = Loaded
  /\ mold_cavity' = Blank
  /\ last_cavity_sent' = CavityMax
  /\ told' = [k \in Keys |-> IF k \in unsaved THEN InForce(Loaded, k) ELSE told[k]]
  /\ unsaved' = {}
  /\ UNCHANGED nvs
-----------------------------------------------------------------------------
(* The console shows the new value and the barcode's confirmation too;     *)
(* MOLD_CAVITY is written by the caller, not by set_config_value().        *)
ShowCavity(k) == mold_cavity' = IF k = "cavity" THEN ram'[k] ELSE mold_cavity

(* A value is put into NVS only if it differs from the default. *)
WrongStore(k, v) ==
  /\ InRange(k, v)
  /\ ram' = [ram EXCEPT ![k] = v]
  /\ nvs' = IF v = Default[k] THEN nvs ELSE [nvs EXCEPT ![k] = v]
  /\ unsaved' = unsaved \ {k}

(* set_config_value(): RAM first, then NVS, whose result is ignored. *)
Store(k, v) ==
  /\ InRange(k, v)
  /\ ram' = [ram EXCEPT ![k] = v]
  /\ \/ nvs' = [nvs EXCEPT ![k] = v] /\ unsaved' = unsaved \ {k}
     \/ NvsMayFail /\ unsaved' = unsaved \cup {k} /\ UNCHANGED nvs

Confirm(k, v, meant) ==
  /\ Store(k, v)
  /\ told' = [told EXCEPT ![k] = meant]
  /\ ShowCavity(k)
  /\ UNCHANGED last_cavity_sent

(* setconfig <key> <number> *)
SetNumber ==
  \E k \in Keys \ ShiftKeys, n \in Numbers :
    Confirm(k, n, IF k \in Durations THEN n * SecondMillis ELSE n)

(* setconfig shift_a <hour>, and shift_a <HH>:<MM> *)
SetShiftHour ==
  \E k \in Keys \cap ShiftKeys, n \in Numbers :
    Confirm(k, Long(n * HourMinutes), n * HourMinutes)

SetShiftTime ==
  \E k \in Keys \cap ShiftKeys, hh \in Numbers, mm \in Numbers :
    Confirm(k, Long(Long(hh * HourMinutes) + mm), hh * HourMinutes + mm)

(* One token of a config barcode; times are in minutes. *)
ScanToken ==
  \E k \in Keys \ ShiftKeys, n \in Numbers :
    IF k \in Durations
      THEN Confirm(k, Long(n * MinuteSeconds), n * MinuteSeconds * SecondMillis)
      ELSE Confirm(k, n, n)

(* resetconfig: clear(), whose result is ignored, and the defaults. *)
ResetConfig ==
  /\ \/ nvs' = [k \in Keys |-> Absent] /\ unsaved' = {}
     \/ NvsMayFail /\ unsaved' = Keys /\ UNCHANGED nvs
  /\ ram' = Default
  /\ told' = [k \in Keys |-> InForce(Default, k)]
  /\ mold_cavity' = IF "cavity" \in Keys THEN Default["cavity"] ELSE mold_cavity
  /\ UNCHANGED last_cavity_sent

(* The end of loop(): the field follows the count. *)
LoopShowsCavity ==
  /\ "cavity" \in Keys
  /\ last_cavity_sent # ram["cavity"]
  /\ mold_cavity' = ram["cavity"]
  /\ last_cavity_sent' = ram["cavity"]
  /\ UNCHANGED <<ram, nvs, told, unsaved>>
-----------------------------------------------------------------------------
Next ==
  \/ Restart
  \/ SetNumber \/ SetShiftHour \/ SetShiftTime \/ ScanToken \/ ResetConfig
  \/ LoopShowsCavity

(* loop() is called forever. *)
Spec == Init /\ [][Next]_vars /\ WF_vars(LoopShowsCavity)
-----------------------------------------------------------------------------
(* A confirmed value whose milliseconds (or minutes of the day) fit 32     *)
(* bits is in force, also after restarts, until a restart that follows a   *)
(* failed write.  The next two properties are about what this one excepts. *)
ConfirmedSettingsHold ==
  \A k \in Keys : told[k] \in 0 .. LongMod - 1 => InForce(ram, k) = told[k]

(* readme.md:227-229: "CYCT/INPT = cycle time / inspection window, in      *)
(* minutes, converted to seconds internally".  The products raw_val * 60L  *)
(* and g_..._s * 1000UL wrap, and the wrapped time is confirmed.           *)
ConfirmedIsInForce ==
  \A k \in Keys : InForce(ram, k) = told[k]

(* config_manager.h:24: "Returns true if key was recognized and            *)
(* applied+persisted": what a restart would load is what is in force.      *)
ConfirmedIsPersisted ==
  Loaded = ram

(* The display comes to show the count that is in force, unless that is    *)
(* the value loop() takes for "nothing sent yet".                          *)
CavityGetsShown ==
  "cavity" \in Keys => []<>(mold_cavity = ram["cavity"] \/ ram["cavity"] = CavityMax)

(* readme.md:198: the field MOLD_CAVITY shows the "Configured cavity       *)
(* count", whatever count set_config_value() accepts.                      *)
CavityAlwaysShown ==
  "cavity" \in Keys => []<>(mold_cavity = ram["cavity"])
=============================================================================
