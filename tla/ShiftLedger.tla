------------------------------ MODULE ShiftLedger ------------------------------
(***************************************************************************)
(* The shift books: shift_manager.cpp, the recovery in setup(), the serial *)
(* number of a label and the console commands that touch them, with power  *)
(* failures between any two writes to flash.                               *)
(*                                                                         *)
(* shift_ok_total and shift_ng_total are sums over the windows folded into *)
(* the shift; the model keeps the set of those windows, so that it can     *)
(* tell a window that is lost from one that is booked twice.  Wall-clock   *)
(* time counts in minutes of days of MinutesPerDay minutes.                *)
(***************************************************************************)
EXTENDS Integers, Sequences, FiniteSets

CONSTANTS
  MinutesPerDay,          \* 1440
  ShiftAMin, ShiftBMin,   \* g_shift_a_min, g_shift_b_min
  FirstMinute,            \* when the controller is first switched on
  LastMinute,             \* bound: the clock stops here
  MaxWindows,             \* bound: windows ever opened
  MaxSerial,              \* bound: labels printed in one shift
  MaxCrashes,             \* bound: power failures and reboots
  MaxClockSets,           \* bound: settime and timesync commands
  RtcMayFail,             \* the RTC bus or oscillator may fail
  FlashMayFail            \* a write to flash, or its mounting, may fail

ASSUME LedgerAssumption ==
  /\ {MinutesPerDay, FirstMinute, LastMinute, MaxWindows, MaxSerial, MaxCrashes,
      MaxClockSets, ShiftAMin, ShiftBMin} \subseteq Nat
  /\ MinutesPerDay > 0
  /\ FirstMinute <= LastMinute
  /\ {RtcMayFail, FlashMayFail} \subseteq BOOLEAN

VARIABLES
  minute,                 \* what the RTC shows, in minutes since day 0
  rtc_ok,                 \* ds3231_read_time() succeeds
  partition,              \* "good", "damaged" (setup() formats it) or "absent"
  \* RAM
  current_shift, totals, shift_counter, shift_rec_date, pending,
  ok_total,               \* shift_ok_total
  printed_count,
  window,                 \* "WAIT", "WINDOW" or "CYCLE"
  pc,                     \* "off", "run", or inside apply_shift_rollover()
  \* flash
  checkpoint, stats,
  sticker,                \* the STICKER field, which the display keeps
  \* scheduling of the once-a-second shift check
  check_due, check_due_after_close,
  \* history, read by no action's guard but for the bounds
  seen,                   \* the minute of the last successful shift check
  home,                   \* for each window ever opened, the shift it opened in
  folded,                 \* the windows closed and not wiped by resetdata since
  labels,                 \* the labels printed: serial, shift they show, window
  crashes, clock_sets

flash == <<checkpoint, stats>>
clock == <<minute, rtc_ok>>
books == <<current_shift, totals, shift_counter, shift_rec_date, ok_total, sticker>>
due == <<check_due, check_due_after_close>>
history == <<seen, home, folded, labels>>
vars == <<clock, partition, books, pending, printed_count, window, pc, flash, due, history,
          crashes, clock_sets>>
-----------------------------------------------------------------------------
(* compute_shift() and the calendar *)

DateOf(m) == m \div MinutesPerDay
ShiftOf(m) ==
  LET minutes_of_day == m % MinutesPerDay
  IN  IF minutes_of_day >= ShiftAMin /\ minutes_of_day < ShiftBMin THEN "A" ELSE "B"

(* The shift a minute belongs to, under the date it began: the small hours *)
(* belong to the night shift of the day before.                            *)
ShiftBegun(m) ==
  [date  |-> IF m % MinutesPerDay < ShiftAMin THEN DateOf(m) - 1 ELSE DateOf(m),
   shift |-> ShiftOf(m)]

Minutes == FirstMinute .. LastMinute
Dates == (DateOf(FirstMinute) - 1) .. DateOf(LastMinute)
NoDate == -9                \* day, month and year are all zero
Windows == 1 .. MaxWindows
Shifts == {"A", "B"}
NoCheckpoint == [shift |-> "?"]     \* missing, empty or unreadable
NoPending == [shift |-> "none"]

Checkpoints ==
  [date: Dates, shift: Shifts, windows: SUBSET Windows, ok: 0 .. MaxSerial,
   counter: 0 .. MaxSerial]
    \cup {NoCheckpoint}
Partitions == {"good", "damaged", "absent"}
Entries == [date: Dates \cup {NoDate}, shift: Shifts \cup {"none"}, windows: SUBSET Windows]
ShiftsBegun == [date: Dates, shift: Shifts]

TypeOK ==
  /\ minute \in Minutes
  /\ rtc_ok \in BOOLEAN /\ partition \in Partitions
  /\ check_due \in BOOLEAN /\ check_due_after_close \in BOOLEAN
  /\ current_shift \in Shifts \cup {"none"}
  /\ totals \subseteq Windows
  /\ {shift_counter, ok_total, printed_count, sticker} \subseteq 0 .. MaxSerial
  /\ shift_rec_date \in Dates \cup {NoDate}
  /\ pending \in [shift: Shifts, date: Dates] \cup {NoPending}
  /\ window \in {"WAIT", "WINDOW", "CYCLE"}
  /\ pc \in {"off", "run", "append", "persist"}
  /\ checkpoint \in Checkpoints
  /\ stats \in Seq(Entries)
  /\ seen \in Minutes
  /\ home \in Seq(ShiftsBegun) /\ Len(home) <= MaxWindows
  /\ folded \subseteq Windows
  /\ labels \subseteq [begun: ShiftsBegun, serial: 1 .. MaxSerial, window: Windows]
  /\ crashes \in 0 .. MaxCrashes
  /\ clock_sets \in 0 .. MaxClockSets
-----------------------------------------------------------------------------
(* The two writes to flash *)

(* Definitions named Wrong... are used by nothing: each is the definition  *)
(* after it with a mistake the code could have, which a property must see. *)

(* littlefs_mounted *)
Mounted == partition = "good"

(* The line is dated with the day after. *)
WrongWriteShiftStats(date, shift, windows) ==
  \/ /\ Mounted
     /\ stats' = Append(stats, [date |-> date + 1, shift |-> shift, windows |-> windows])
  \/ /\ ~Mounted \/ FlashMayFail
     /\ UNCHANGED stats

(* write_shift_stats(): one more line, unless it is refused for want of a  *)
(* file system or of space, or fails.                                      *)
WriteShiftStats(date, shift, windows) ==
  \/ /\ Mounted
     /\ stats' = Append(stats, [date |-> date, shift |-> shift, windows |-> windows])
  \/ /\ ~Mounted \/ FlashMayFail
     /\ UNCHANGED stats

(* The checkpoint is written before the window is folded in. *)
WrongWriteCheckpoint(windows, ok) ==
  \/ /\ Mounted
     /\ checkpoint' =
          IF shift_rec_date = NoDate \/ current_shift = "none" THEN NoCheckpoint
          ELSE [date |-> shift_rec_date, shift |-> current_shift, windows |-> totals,
                ok |-> ok_total, counter |-> shift_counter]
  \/ /\ ~Mounted \/ FlashMayFail
     /\ UNCHANGED checkpoint

(* write_checkpoint(): the file is truncated before the month is checked   *)
(* and the line is written, so an undated or a failed write loses the old  *)
(* checkpoint too; a line for an undetermined shift cannot be read back.   *)
(* Only a write refused for want of space leaves the old one.              *)
WriteCheckpoint(windows, ok) ==
  \/ /\ Mounted
     /\ checkpoint' =
          IF shift_rec_date = NoDate \/ current_shift = "none" THEN NoCheckpoint
          ELSE [date |-> shift_rec_date, shift |-> current_shift, windows |-> windows,
                ok |-> ok, counter |-> shift_counter]
  \/ /\ Mounted /\ FlashMayFail
     /\ checkpoint' = NoCheckpoint
  \/ /\ ~Mounted \/ FlashMayFail
     /\ UNCHANGED checkpoint
-----------------------------------------------------------------------------
Init ==
  /\ minute = FirstMinute /\ rtc_ok = TRUE /\ partition = "good"
  /\ current_shift = "none" /\ totals = {} /\ shift_counter = 0
  /\ shift_rec_date = NoDate /\ pending = NoPending
  /\ ok_total = 0 /\ printed_count = 0 /\ sticker = 0
  /\ window = "WAIT" /\ pc = "off"
  /\ checkpoint = NoCheckpoint /\ stats = << >>
  /\ check_due = FALSE /\ check_due_after_close = FALSE
  /\ seen = FirstMinute /\ home = << >> /\ folded = {} /\ labels = {}
  /\ crashes = 0 /\ clock_sets = 0

(* read_checkpoint() succeeds. *)
Found == Mounted /\ checkpoint # NoCheckpoint

(* Any checkpoint is resumed. *)
WrongResumes == Found /\ rtc_ok

(* The checkpoint names the shift the RTC shows now; its date is not read. *)
Resumes == Found /\ rtc_ok /\ checkpoint.shift = ShiftOf(minute)

(* The counter starts at 0 after every boot. *)
WrongBootCounter == shift_counter' = 0

BootCounter == shift_counter' = IF Resumes THEN checkpoint.counter ELSE 0

(* STICKER is written by window closes and rollovers only. *)
WrongBootSticker(ok) == UNCHANGED sticker

(* STICKER is written in every case of a boot. *)
BootSticker(ok) == sticker' = ok

(* LittleFS.begin(true): a partition that does not mount is formatted. *)
MountFlash ==
  /\ partition' = IF partition = "damaged" THEN "good" ELSE partition
  /\ checkpoint' = IF partition = "damaged" THEN NoCheckpoint ELSE checkpoint

(* setup(): resume the checkpoint if it names the shift the RTC shows now, *)
(* else book it and start afresh; nothing is written to the checkpoint.    *)
(* Without a file system the shift is known but its record has no date.    *)
Boot ==
  LET shift == IF rtc_ok THEN ShiftOf(minute) ELSE "none"
  IN  /\ pc = "off"
      /\ pc' = "run"
      /\ MountFlash
      /\ current_shift' = shift
      /\ totals' = IF Resumes THEN checkpoint.windows ELSE {}
      /\ BootCounter
      /\ ok_total' = IF Resumes THEN checkpoint.ok ELSE 0
      /\ BootSticker(ok_total')
      /\ shift_rec_date' = CASE Resumes -> checkpoint.date
                             [] ~Resumes /\ rtc_ok /\ partition # "absent" -> DateOf(minute)
                             [] OTHER -> NoDate
      /\ IF Found /\ ~Resumes
           THEN WriteShiftStats(checkpoint.date, checkpoint.shift, checkpoint.windows)
           ELSE stats' = IF partition = "damaged" THEN << >> ELSE stats
      /\ seen' = IF rtc_ok THEN minute ELSE seen
      /\ UNCHANGED <<clock, pending, printed_count, window, due, home, folded, labels, crashes,
                     clock_sets>>

(* Power failure, watchdog reset or the reboot command: RAM is gone. *)
Crash ==
  /\ pc # "off"
  /\ crashes < MaxCrashes
  /\ crashes' = crashes + 1
  /\ pc' = "off"
  /\ current_shift' = "none" /\ totals' = {} /\ shift_counter' = 0
  /\ shift_rec_date' = NoDate /\ pending' = NoPending /\ window' = "WAIT"
  /\ ok_total' = 0 /\ printed_count' = 0
  /\ check_due' = FALSE /\ check_due_after_close' = FALSE
  /\ UNCHANGED <<clock, partition, flash, sticker, history, clock_sets>>
-----------------------------------------------------------------------------
(* Production *)

(* The serial is taken when the part is counted at the close. *)
WrongPrintLabel(into) ==
  /\ rtc_ok
  /\ shift_counter < MaxSerial
  /\ shift_counter' = ok_total + 1
  /\ printed_count' = printed_count + 1
  /\ sticker' = ok_total + printed_count'
  /\ labels' = labels \cup
       {[begun |-> ShiftBegun(minute), serial |-> ok_total + 1, window |-> into]}

(* A label needs a readable RTC, for its date and shift, and takes the     *)
(* next serial.                                                            *)
PrintLabel(into) ==
  /\ rtc_ok
  /\ shift_counter < MaxSerial
  /\ shift_counter' = shift_counter + 1
  /\ printed_count' = printed_count + 1
  /\ sticker' = ok_total + printed_count'
  /\ labels' = labels \cup
       {[begun |-> ShiftBegun(minute), serial |-> shift_counter + 1, window |-> into]}

OpenWindow ==
  /\ window' = "WINDOW"
  /\ Len(home) < MaxWindows
  /\ home' = Append(home, ShiftBegun(seen))

OpenByScan ==
  /\ pc = "run" /\ window = "WAIT"
  /\ OpenWindow
  /\ PrintLabel(Len(home'))
  /\ UNCHANGED <<clock, partition, current_shift, totals, shift_rec_date, ok_total, pending, pc,
                 flash, due, seen, folded, crashes, clock_sets>>

(* A mold cycle is longer than the interval of the shift checks. *)
OpenByTimer ==
  /\ pc = "run" /\ window = "CYCLE"
  /\ ~check_due_after_close
  /\ OpenWindow
  /\ UNCHANGED <<clock, partition, books, pending, printed_count, pc, flash, due, seen,
                 folded, labels, crashes, clock_sets>>

PrintInWindow ==
  /\ pc = "run" /\ window = "WINDOW"
  /\ PrintLabel(Len(home))
  /\ UNCHANGED <<clock, partition, current_shift, totals, shift_rec_date, ok_total, pending, window,
                 pc, flash, due, seen, home, folded, crashes, clock_sets>>

(* enter_state(SYS_CYCLE_TIME), where the count of the window ends *)
EnterCycle ==
  /\ window' = "CYCLE"
  /\ printed_count' = 0
  /\ check_due_after_close' = TRUE

(* close_inspection_window() up to the checkpoint *)
CloseWindow ==
  LET this == Len(home)
  IN  /\ pc = "run" /\ window = "WINDOW"
      /\ totals' = totals \cup {this}
      /\ folded' = folded \cup {this}
      /\ ok_total' = ok_total + printed_count
      /\ sticker' = ok_total'
      /\ WriteCheckpoint(totals', ok_total')
      /\ IF pending # NoPending
           THEN pc' = "append" /\ UNCHANGED <<window, printed_count, check_due_after_close>>
           ELSE UNCHANGED pc /\ EnterCycle
      /\ UNCHANGED <<clock, partition, current_shift, shift_counter, shift_rec_date,
                     pending, stats, check_due, seen, home, labels,
                     crashes, clock_sets>>

(* The new shift is not stored. *)
WrongRolloverShift(shift, date) ==
  /\ WriteShiftStats(shift_rec_date, current_shift, totals)
  /\ totals' = {}
  /\ shift_counter' = 0 /\ ok_total' = 0 /\ sticker' = 0
  /\ shift_rec_date' = date
  /\ UNCHANGED current_shift

(* The shift in RAM is booked and the next one starts. *)
Rollover(shift, date) ==
  /\ WriteShiftStats(shift_rec_date, current_shift, totals)
  /\ totals' = {}
  /\ shift_counter' = 0 /\ ok_total' = 0 /\ sticker' = 0
  /\ shift_rec_date' = date
  /\ current_shift' = shift

(* apply_shift_rollover() up to the checkpoint, and the checkpoint *)
ApplyRollover ==
  /\ pc = "append"
  /\ pc' = "persist"
  /\ Rollover(pending.shift, pending.date)
  /\ UNCHANGED <<clock, partition, pending, printed_count, window, checkpoint, due, history,
                 crashes, clock_sets>>

PersistRollover ==
  /\ pc = "persist"
  /\ pc' = "run"
  /\ WriteCheckpoint(totals, ok_total)
  /\ pending' = NoPending
  /\ EnterCycle
  /\ UNCHANGED <<clock, partition, books, stats, check_due, history, crashes, clock_sets>>
-----------------------------------------------------------------------------
(* check_shift_rollover() *)

(* Only the start of the night shift is noticed. *)
WrongShiftChanged == current_shift = "A" /\ ShiftOf(minute) = "B"

ShiftChanged == current_shift # "none" /\ ShiftOf(minute) # current_shift

CheckDone ==
  /\ pc = "run"
  /\ check_due' = FALSE
  /\ check_due_after_close' = FALSE
  /\ seen' = IF rtc_ok THEN minute ELSE seen
  /\ UNCHANGED <<clock, partition, printed_count, window, pc, checkpoint, home, folded,
                 labels, crashes, clock_sets>>

CheckUnreadable ==
  /\ ~rtc_ok
  /\ CheckDone
  /\ UNCHANGED <<books, pending, stats>>

(* The boundary is deferred in every state. *)
WrongCheckDefers ==
  /\ rtc_ok /\ ShiftChanged
  /\ CheckDone
  /\ pending' = [shift |-> ShiftOf(minute), date |-> DateOf(minute)]
  /\ UNCHANGED <<books, stats>>

CheckDefers ==
  /\ rtc_ok /\ ShiftChanged /\ window = "WINDOW"
  /\ CheckDone
  /\ pending' = [shift |-> ShiftOf(minute), date |-> DateOf(minute)]
  /\ UNCHANGED <<books, stats>>

(* The boundary is applied whether or not a window is open. *)
WrongCheckRollsOver ==
  /\ rtc_ok /\ ShiftChanged
  /\ CheckDone
  /\ Rollover(ShiftOf(minute), DateOf(minute))
  /\ UNCHANGED pending

CheckRollsOver ==
  /\ rtc_ok /\ ShiftChanged /\ window # "WINDOW"
  /\ CheckDone
  /\ Rollover(ShiftOf(minute), DateOf(minute))
  /\ UNCHANGED pending

(* The record is anchored by rollovers only. *)
WrongCheckSameShift ==
  /\ rtc_ok /\ ~ShiftChanged
  /\ CheckDone
  /\ current_shift' = ShiftOf(minute)
  /\ UNCHANGED <<totals, shift_counter, shift_rec_date, ok_total, sticker, pending, stats>>

CheckSameShift ==
  /\ rtc_ok /\ ~ShiftChanged
  /\ CheckDone
  /\ current_shift' = ShiftOf(minute)
  /\ shift_rec_date' = IF current_shift = "none" THEN DateOf(minute) ELSE shift_rec_date
  /\ UNCHANGED <<totals, shift_counter, ok_total, sticker, pending, stats>>

ShiftCheck == CheckUnreadable \/ CheckDefers \/ CheckRollsOver \/ CheckSameShift
-----------------------------------------------------------------------------
(* The console and the environment *)

(* settime and timesync store the new shift, without telling the books,   *)
(* once the RTC reads back what was written; else the RTC may show         *)
(* anything and the shift stays.                                           *)
SetClock ==
  /\ pc = "run"
  /\ clock_sets < MaxClockSets
  /\ clock_sets' = clock_sets + 1
  /\ \E m \in Minutes : minute' = m
  /\ \/ /\ rtc_ok' = TRUE
        /\ current_shift' = ShiftOf(minute')
     \/ /\ RtcMayFail
        /\ rtc_ok' \in BOOLEAN
        /\ UNCHANGED current_shift
  /\ check_due' = TRUE
  /\ UNCHANGED <<partition, totals, shift_counter, shift_rec_date, ok_total, sticker, pending,
                 printed_count, window, pc, flash, check_due_after_close, history, crashes>>

(* resetdata: every file under /stats goes, RAM stays. *)
ResetData ==
  /\ pc = "run" /\ Mounted
  /\ checkpoint' = NoCheckpoint
  /\ stats' = << >>
  /\ folded' = {}
  /\ UNCHANGED <<clock, partition, books, pending, printed_count, window, pc, due, seen, home,
                 labels, crashes, clock_sets>>

(* A minute passes; a running loop() checks the shift in every one. *)
ClockAdvance ==
  /\ ~check_due
  /\ pc = "off" => crashes > 0
  /\ minute < LastMinute
  /\ minute' = minute + 1
  /\ check_due' = (pc # "off")
  /\ UNCHANGED <<rtc_ok, partition, books, pending, printed_count, window, pc, flash,
                 check_due_after_close, history, crashes, clock_sets>>

RtcComesOrGoes ==
  /\ RtcMayFail
  /\ rtc_ok' = ~rtc_ok
  /\ UNCHANGED <<minute, partition, books, pending, printed_count, window, pc, flash, due, history,
                 crashes, clock_sets>>

(* What setup() will find: the partition, a damaged one, or none at all. *)
PartitionChanges ==
  /\ pc = "off" /\ FlashMayFail
  /\ partition' \in Partitions
  /\ UNCHANGED <<clock, books, pending, printed_count, window, pc, flash, due, history, crashes,
                 clock_sets>>
-----------------------------------------------------------------------------
Close == CloseWindow \/ ApplyRollover \/ PersistRollover

Next ==
  \/ Boot \/ Crash
  \/ OpenByScan \/ OpenByTimer \/ PrintInWindow \/ Close
  \/ ShiftCheck \/ SetClock \/ ResetData
  \/ ClockAdvance \/ RtcComesOrGoes \/ PartitionChanges

Spec == Init /\ [][Next]_vars

(* setup() ends, loop() checks the shift every second, and a rollover once *)
(* begun is finished.  That a window closes is not assumed: one paused by  *)
(* a printer that stays dead does not.                                     *)
FairSpec ==
  Spec /\ WF_vars(Boot) /\ WF_vars(ShiftCheck) /\ WF_vars(ApplyRollover) /\ WF_vars(PersistRollover)
-----------------------------------------------------------------------------
(* Safety *)

(* No finalized window is booked a second time. *)
BookedOnce ==
  \A i, j \in DOMAIN stats : i # j => stats[i].windows \cap stats[j].windows = {}

(* "A power loss any time before the next window close only costs this one *)
(* window, not the shift": every window that was closed is on flash, in    *)
(* the checkpoint or in a finalized line, whenever the power may fail.     *)
NothingLost ==
  \A w \in folded :
    \/ checkpoint # NoCheckpoint /\ w \in checkpoint.windows
    \/ \E i \in DOMAIN stats : w \in stats[i].windows

SameShift(windows) == \A v, w \in windows : home[v] = home[w]

(* Until the power fails the totals, and each finalized line, hold windows *)
(* of one shift only: no boundary is missed and no two days are added up.  *)
OneShiftPerRecord ==
  crashes = 0 =>
    /\ SameShift(totals)
    /\ \A i \in DOMAIN stats : SameShift(stats[i].windows)

(* The serial on the label counts the parts of the shift: those booked and *)
(* those of the open window, also after the recovery of a checkpoint, a    *)
(* rollover and a deferred one.                                            *)
SerialsMatchParts == pc = "run" => shift_counter = ok_total + printed_count

(* "Covers every boot case, never blank": the display's STICKER shows the  *)
(* parts of the shift in RAM.                                              *)
StickerShowsShift == pc = "run" => sticker = ok_total + printed_count

(* Two labels of one shift never bear the same serial, unless the power    *)
(* failed before the window of the first was closed (or resetdata wiped    *)
(* it), or the first was printed past the boundary in a window of the      *)
(* shift before, with the old counter.                                     *)
SerialsReusedOnlyAfterLoss ==
  \A p, q \in labels :
    p.begun = q.begun /\ p.serial = q.serial /\ p.window < q.window =>
      p.window \notin folded \/ p.begun # home[p.window]

(* Whatever the power does, day and night shift are never added up: a      *)
(* checkpoint that is resumed, possibly days later, is of the same shift.  *)
NoMixOfDayAndNight ==
  LET OneLetter(windows) == \A v, w \in windows : home[v].shift = home[w].shift
  IN  OneLetter(totals) /\ \A i \in DOMAIN stats : OneLetter(stats[i].windows)

(* A finalized line names the shift its windows belong to, under the date  *)
(* that shift began.                                                       *)
RecordNamesItsShift ==
  \A i \in DOMAIN stats : \A w \in stats[i].windows :
    home[w] = [date |-> stats[i].date, shift |-> stats[i].shift]

(* A deferred rollover never outlives the window it waits for. *)
PendingOnlyInWindow == pending # NoPending => window = "WINDOW"

(* "A shift boundary crossed while a window is open doesn't reset totals   *)
(* out from under it": while a window stays open nothing is taken from the *)
(* totals and the serial never goes back.                                  *)
NoRolloverUnderOpenWindow ==
  [][ window = "WINDOW" /\ pc = "run" /\ pc' = "run" =>
        /\ totals \subseteq totals'
        /\ shift_counter <= shift_counter' ]_vars

(* While nobody sets the clock no line without a date is written, however  *)
(* late the clock could be read and whether or not the flash was mounted   *)
(* when the shift was determined.                                          *)
LinesDated == clock_sets = 0 => \A i \in DOMAIN stats : stats[i].date # NoDate

(* "Re-anchor the record date whenever a (new) shift begins - covers both  *)
(* the very first determination at boot and every subsequent rollover":    *)
(* every line has a date.  A shift first determined by settime has none.   *)
EveryLineDated == \A i \in DOMAIN stats : stats[i].date # NoDate

(* The abstract book of shifts, as far as the power lasts. *)
Powered == crashes = 0
Book == INSTANCE ShiftBook
  WITH powered <- Powered,
       open <- Powered /\ window = "WINDOW" /\ pc = "run",
       opened <- IF Powered THEN Len(home) ELSE 0,
       running <- IF Powered THEN totals ELSE {},
       pages <- IF Powered THEN [i \in DOMAIN stats |-> stats[i].windows] ELSE << >>

(* Closing, deferring and rolling over implement a book whose pages are    *)
(* turned whole, and never under an open window.                           *)
ShiftBookSpec == Book!Spec
-----------------------------------------------------------------------------
(* Liveness *)

(* A shift boundary is never missed: once the clock shows a shift for good *)
(* the books are those of that shift, or its rollover waits for an open    *)
(* window that never closes.                                               *)
RolloverCatchesUp ==
  \/ <>[](current_shift = ShiftOf(minute))
  \/ <>[](window = "WINDOW" /\ pending # NoPending /\ pending.shift = ShiftOf(minute))
=============================================================================
