--------------------------- MODULE ShiftLedger_proofs ---------------------------
(* Theorems about ShiftLedger, for every length of day, every pair of shift *)
(* starts and every bound on windows, labels, power failures and clock sets.*)
EXTENDS ShiftLedger, SequenceTheorems, TLAPS

-----------------------------------------------------------------------------
(* The calendar *)

LEMMA ConstantTypes ==
  /\ MinutesPerDay \in Nat /\ MinutesPerDay > 0
  /\ FirstMinute \in Nat /\ LastMinute \in Nat /\ FirstMinute <= LastMinute
  /\ MaxWindows \in Nat /\ MaxSerial \in Nat /\ MaxCrashes \in Nat /\ MaxClockSets \in Nat
  /\ ShiftAMin \in Nat /\ ShiftBMin \in Nat
  /\ RtcMayFail \in BOOLEAN /\ FlashMayFail \in BOOLEAN
BY LedgerAssumption

(* A minute is its day and its minute of the day. *)
LEMMA DayAndMinute ==
  ASSUME NEW m \in Nat
  PROVE  /\ DateOf(m) \in Nat
         /\ m % MinutesPerDay \in 0 .. MinutesPerDay - 1
         /\ m = MinutesPerDay * DateOf(m) + (m % MinutesPerDay)
BY ConstantTypes DEF DateOf

(* A checkpoint holds no open window, so a boot adds zero to the good count. *)
LEMMA PlusZero ==
  ASSUME NEW n \in Int
  PROVE  n + 0 = n
OBVIOUS

LEMMA TimesMonotone ==
  ASSUME NEW k \in Nat, NEW a \in Nat, NEW b \in Nat, a <= b
  PROVE  k * a <= k * b
  <1>1. PICK d \in Nat : b = a + d
    <2>1. b - a \in Nat /\ b = a + (b - a)
      OBVIOUS
    <2> QED BY <2>1
  <1>2. k * b = k * a + k * d
    BY <1>1
  <1>3. k * d \in Nat /\ k * a \in Nat
    OBVIOUS
  <1> QED BY <1>2, <1>3

(* Dates do not go back. *)
LEMMA DatesInOrder ==
  ASSUME NEW m \in Nat, NEW n \in Nat, m <= n
  PROVE  DateOf(m) <= DateOf(n)
  <1> SUFFICES ASSUME DateOf(n) < DateOf(m) PROVE FALSE
    BY DayAndMinute
  <1> DEFINE D == MinutesPerDay
             dm == DateOf(m)
             dn == DateOf(n)
             rm == m % D
             rn == n % D
  <1>1. /\ dm \in Nat /\ rm \in 0 .. D - 1 /\ m = D * dm + rm
        /\ dn \in Nat /\ rn \in 0 .. D - 1 /\ n = D * dn + rn
        /\ D \in Nat
    BY DayAndMinute, ConstantTypes
  <1>2. dn + 1 <= dm
    BY <1>1
  <1> HIDE DEF D, dm, dn, rm, rn
  <1>3. D * (dn + 1) <= D * dm
    BY <1>1, <1>2, TimesMonotone
  <1>4. D * (dn + 1) = D * dn + D /\ D * dn \in Nat /\ D * dm \in Nat
    BY <1>1
  <1> QED BY <1>1, <1>3, <1>4

LEMMA CalendarTypes ==
  ASSUME NEW m \in Minutes
  PROVE  /\ m \in Nat
         /\ DateOf(m) \in Dates /\ DateOf(m) \in Nat /\ DateOf(m) # NoDate
         /\ ShiftOf(m) \in Shifts
         /\ ShiftBegun(m) \in ShiftsBegun
         /\ ShiftBegun(m).shift = ShiftOf(m)
  <1>1. m \in Nat /\ FirstMinute <= m /\ m <= LastMinute
    BY ConstantTypes DEF Minutes
  <1>2. /\ DateOf(FirstMinute) \in Nat /\ DateOf(LastMinute) \in Nat /\ DateOf(m) \in Nat
        /\ DateOf(FirstMinute) <= DateOf(m) /\ DateOf(m) <= DateOf(LastMinute)
    BY <1>1, DayAndMinute, DatesInOrder, ConstantTypes
  <1>3. DateOf(m) \in Dates /\ DateOf(m) - 1 \in Dates
    BY <1>2 DEF Dates
  <1>4. ShiftOf(m) \in Shifts
    BY DEF ShiftOf, Shifts
  <1>5. DateOf(m) # NoDate
    BY <1>2 DEF NoDate
  <1> QED BY <1>1, <1>2, <1>3, <1>4, <1>5 DEF ShiftBegun, ShiftsBegun

LEMMA NoDateIsNone == NoDate \notin Dates /\ Dates \subseteq Int
  <1>1. DateOf(FirstMinute) \in Nat /\ DateOf(LastMinute) \in Nat
    BY DayAndMinute, ConstantTypes
  <1> QED BY <1>1 DEF NoDate, Dates

-----------------------------------------------------------------------------
(* Types, serials and the deferred rollover.  That the counts stay in their *)
(* range rests on the serial being their sum, so the three go together.     *)

(* Between the two writes of a rollover the window's count is already in the*)
(* totals; a window that is not open has no count, and what a checkpoint    *)
(* gives back is consistent.                                                *)
SerialInv ==
  /\ pc = "run" => shift_counter = ok_total + printed_count /\ sticker = ok_total + printed_count
  /\ pc \in {"append", "persist"} => shift_counter = ok_total /\ sticker = ok_total
  /\ window # "WINDOW" => printed_count = 0
  /\ checkpoint # NoCheckpoint => checkpoint.counter = checkpoint.ok

(* A rollover waits only for an open window, and is under way only if one   *)
(* was deferred; while the power is off there is neither.                   *)
PendingInv ==
  /\ pending # NoPending => window = "WINDOW"
  /\ window = "WINDOW" => home # << >>
  /\ pc \in {"append", "persist"} => pending # NoPending
  /\ pc = "off" => window = "WAIT" /\ totals = {}

CoreInv == TypeOK /\ SerialInv /\ PendingInv

(* TypeOK in the groups that an action changes together. *)
ClockType ==
  /\ minute \in Minutes /\ seen \in Minutes
  /\ rtc_ok \in BOOLEAN /\ partition \in Partitions
  /\ check_due \in BOOLEAN /\ check_due_after_close \in BOOLEAN
  /\ crashes \in 0 .. MaxCrashes
  /\ clock_sets \in 0 .. MaxClockSets

CountType ==
  /\ shift_counter \in 0 .. MaxSerial /\ ok_total \in 0 .. MaxSerial
  /\ printed_count \in 0 .. MaxSerial /\ sticker \in 0 .. MaxSerial

RamType ==
  /\ current_shift \in Shifts \cup {"none"}
  /\ totals \in SUBSET Windows
  /\ shift_rec_date \in Dates \cup {NoDate}
  /\ pending \in [shift: Shifts, date: Dates] \cup {NoPending}
  /\ window \in {"WAIT", "WINDOW", "CYCLE"}
  /\ pc \in {"off", "run", "append", "persist"}

FlashType == checkpoint \in Checkpoints /\ stats \in Seq(Entries)

LabelType == labels \subseteq [begun: ShiftsBegun, serial: 1 .. MaxSerial, window: Windows]

HistoryType ==
  /\ home \in Seq(ShiftsBegun) /\ Len(home) <= MaxWindows
  /\ folded \in SUBSET Windows

LEMMA TypeParts ==
  TypeOK <=> ClockType /\ CountType /\ RamType /\ FlashType /\ LabelType /\ HistoryType
BY DEF TypeOK, ClockType, CountType, RamType, FlashType, LabelType, HistoryType

LEMMA TypePartsNext ==
  TypeOK' <=> ClockType' /\ CountType' /\ RamType' /\ FlashType' /\ LabelType' /\ HistoryType'
BY DEF TypeOK, ClockType, CountType, RamType, FlashType, LabelType, HistoryType

LEMMA InitCore == Init => CoreInv
  <1> SUFFICES ASSUME Init PROVE CoreInv
    OBVIOUS
  <1>1. ClockType
    <2>1. FirstMinute \in Minutes /\ 0 \in 0 .. MaxCrashes /\ 0 \in 0 .. MaxClockSets
      BY ConstantTypes DEF Minutes
    <2>2. "good" \in Partitions
      BY DEF Partitions
    <2> QED BY <2>1, <2>2, Zenon DEF Init, ClockType
  <1>2. CountType /\ RamType
    BY ConstantTypes DEF Init, CountType, RamType
  <1>3. << >> \in Seq(Entries) /\ << >> \in Seq(ShiftsBegun) /\ Len(<< >>) = 0
    BY EmptySeq
  <1>4. FlashType /\ LabelType /\ HistoryType
    BY <1>3, ConstantTypes DEF Init, FlashType, LabelType, HistoryType, Checkpoints
  <1>5. SerialInv /\ PendingInv
    BY DEF Init, SerialInv, PendingInv
  <1> QED BY <1>1, <1>2, <1>4, <1>5, TypeParts DEF CoreInv

(* The two writes keep the files in their types. *)
LEMMA WriteStatsType ==
  ASSUME FlashType, NEW date \in Dates \cup {NoDate}, NEW shift \in Shifts \cup {"none"},
         NEW windows \in SUBSET Windows, WriteShiftStats(date, shift, windows)
  PROVE  stats' \in Seq(Entries)
  <1>1. [date |-> date, shift |-> shift, windows |-> windows] \in Entries
    BY DEF Entries
  <1> QED BY <1>1, AppendProperties DEF WriteShiftStats, FlashType

LEMMA WriteCheckpointType ==
  ASSUME TypeOK, NEW windows \in SUBSET Windows, NEW ok \in 0 .. MaxSerial,
         WriteCheckpoint(windows, ok), ok = shift_counter,
         checkpoint # NoCheckpoint => checkpoint.counter = checkpoint.ok
  PROVE  /\ checkpoint' \in Checkpoints
         /\ checkpoint' # NoCheckpoint => checkpoint'.counter = checkpoint'.ok
  <1>1. CASE checkpoint' = checkpoint
    BY <1>1 DEF TypeOK
  <1>2. CASE checkpoint' = NoCheckpoint
    BY <1>2 DEF Checkpoints
  <1>3. CASE ~(checkpoint' = checkpoint \/ checkpoint' = NoCheckpoint)
    <2>1. /\ ~(shift_rec_date = NoDate \/ current_shift = "none")
          /\ checkpoint' = [date |-> shift_rec_date, shift |-> current_shift,
                            windows |-> windows, ok |-> ok, counter |-> shift_counter]
      BY <1>3 DEF WriteCheckpoint
    <2> QED BY <2>1 DEF TypeOK, Checkpoints
  <1> QED BY <1>1, <1>2, <1>3

(* What a label and the opening of a window leave behind. *)
LEMMA PrintLabelCore ==
  ASSUME CoreInv, pc = "run", NEW into \in Windows, PrintLabel(into),
         UNCHANGED ok_total
  PROVE  /\ CountType' /\ LabelType'
         /\ shift_counter' = ok_total + printed_count'
         /\ sticker' = ok_total + printed_count'
  <1> USE DEF CoreInv
  <1>1. shift_counter = ok_total + printed_count
    BY DEF SerialInv
  <1>2. CountType /\ LabelType /\ minute \in Minutes
    BY TypeParts DEF ClockType
  <1>3. shift_counter + 1 \in 1 .. MaxSerial
    BY <1>2, ConstantTypes DEF PrintLabel, CountType
  <1>4. [begun |-> ShiftBegun(minute), serial |-> shift_counter + 1, window |-> into]
          \in [begun: ShiftsBegun, serial: 1 .. MaxSerial, window: Windows]
    BY <1>2, <1>3, CalendarTypes
  <1>5. LabelType'
    BY <1>2, <1>4 DEF PrintLabel, LabelType
  <1>6. /\ shift_counter' = shift_counter + 1 /\ printed_count' = printed_count + 1
        /\ sticker' = ok_total + printed_count'
        /\ ok_total' = ok_total
    BY DEF PrintLabel
  <1>7. CountType'
    BY <1>1, <1>2, <1>3, <1>6, ConstantTypes DEF CountType
  <1> QED BY <1>1, <1>2, <1>5, <1>6, <1>7 DEF CountType

LEMMA OpenWindowCore ==
  ASSUME TypeOK, OpenWindow
  PROVE  /\ home' \in Seq(ShiftsBegun) /\ Len(home') = Len(home) + 1
         /\ Len(home') <= MaxWindows /\ Len(home') \in Windows /\ window' = "WINDOW"
         /\ \A w \in 1 .. Len(home) : home'[w] = home[w]
         /\ home'[Len(home')] = ShiftBegun(seen)
  <1>1. ShiftBegun(seen) \in ShiftsBegun /\ home \in Seq(ShiftsBegun)
    BY CalendarTypes DEF TypeOK
  <1>2. /\ home' \in Seq(ShiftsBegun) /\ Len(home') = Len(home) + 1
        /\ Len(home) \in Nat /\ Len(home) < MaxWindows
        /\ \A w \in 1 .. Len(home) : home'[w] = home[w]
        /\ home'[Len(home')] = ShiftBegun(seen)
    BY <1>1, AppendProperties, LenProperties DEF OpenWindow
  <1> QED BY <1>2, ConstantTypes DEF OpenWindow, Windows

(* An open window has a number. *)
LEMMA LastWindow ==
  ASSUME HistoryType, PendingInv, window = "WINDOW"
  PROVE  Len(home) \in Windows
  <1>1. home \in Seq(ShiftsBegun) /\ Len(home) <= MaxWindows /\ home # << >>
    BY DEF HistoryType, PendingInv
  <1>2. Len(home) \in Nat /\ Len(home) # 0
    BY <1>1, EmptySeq, LenProperties
  <1> QED BY <1>1, <1>2, ConstantTypes DEF Windows

(* What a rollover leaves in RAM and in the finalized lines. *)
LEMMA RolloverCore ==
  ASSUME TypeOK, NEW shift \in Shifts, NEW date \in Dates, Rollover(shift, date)
  PROVE  /\ stats' \in Seq(Entries)
         /\ totals' = {} /\ shift_counter' = 0 /\ ok_total' = 0 /\ sticker' = 0
         /\ current_shift' = shift /\ shift_rec_date' = date
  <1>1. /\ shift_rec_date \in Dates \cup {NoDate} /\ current_shift \in Shifts \cup {"none"}
        /\ totals \in SUBSET Windows /\ FlashType
    BY TypeParts DEF RamType
  <1>2. WriteShiftStats(shift_rec_date, current_shift, totals)
    BY DEF Rollover
  <1>3. stats' \in Seq(Entries)
    BY <1>1, <1>2, WriteStatsType
  <1> QED BY <1>3 DEF Rollover

LEMMA BootCore ==
  ASSUME CoreInv, Boot
  PROVE  CoreInv'
  <1> USE DEF CoreInv
  <1>1. ClockType /\ CountType /\ RamType /\ FlashType /\ LabelType /\ HistoryType
    BY TypeParts
  <1>2. /\ ShiftOf(minute) \in Shifts /\ DateOf(minute) \in Dates /\ 0 \in 0 .. MaxSerial
    BY <1>1, CalendarTypes, ConstantTypes DEF ClockType
  <1>3. Resumes => checkpoint \in [date: Dates, shift: Shifts, windows: SUBSET Windows,
                                   ok: 0 .. MaxSerial, counter: 0 .. MaxSerial]
    BY <1>1 DEF Resumes, Found, FlashType, Checkpoints
  <1>4. /\ stats' \in Seq(Entries)
        /\ checkpoint' \in {checkpoint, NoCheckpoint}
        /\ partition' \in Partitions
    <2>1. CASE Found /\ ~Resumes
      <3>1. /\ checkpoint.date \in Dates /\ checkpoint.shift \in Shifts
            /\ checkpoint.windows \in SUBSET Windows
        BY <1>1, <2>1 DEF Found, FlashType, Checkpoints
      <3>2. WriteShiftStats(checkpoint.date, checkpoint.shift, checkpoint.windows)
        BY <2>1 DEF Boot
      <3>3. stats' \in Seq(Entries)
        BY <1>1, <3>1, <3>2, WriteStatsType
      <3> QED BY <1>1, <3>3 DEF Boot, MountFlash, ClockType, Partitions
    <2>2. CASE ~(Found /\ ~Resumes)
      <3>1. stats' = stats \/ stats' = << >>
        BY <2>2 DEF Boot
      <3>2. << >> \in Seq(Entries)
        BY EmptySeq
      <3> QED BY <1>1, <3>1, <3>2 DEF Boot, MountFlash, FlashType, ClockType, Partitions
    <2> QED BY <2>1, <2>2
  <1>5. /\ totals' \in SUBSET Windows
        /\ shift_counter' \in 0 .. MaxSerial
        /\ ok_total' = shift_counter' /\ sticker' = shift_counter'
        /\ shift_rec_date' \in Dates \cup {NoDate}
    <2>1. CASE Resumes
      <3>1. checkpoint.counter = checkpoint.ok
        BY <2>1 DEF Resumes, Found, SerialInv
      <3> QED BY <1>3, <2>1, <3>1 DEF Boot, BootCounter, BootSticker
    <2>2. CASE ~Resumes
      BY <1>2, <2>2 DEF Boot, BootCounter, BootSticker
    <2> QED BY <2>1, <2>2
  <1>6. /\ printed_count = 0 /\ printed_count' = 0 /\ window' = "WAIT" /\ pending' = NoPending
        /\ pc' = "run" /\ current_shift' \in Shifts \cup {"none"}
    BY <1>2 DEF Boot, SerialInv, PendingInv
  <1>7. ClockType'
    BY <1>1, <1>4 DEF Boot, ClockType, clock, due
  <1>8. CountType' /\ RamType'
    BY <1>1, <1>2, <1>5, <1>6 DEF CountType, RamType
  <1>9. FlashType' /\ LabelType' /\ HistoryType'
    BY <1>1, <1>4 DEF Boot, FlashType, Checkpoints, LabelType, HistoryType
  <1>10. SerialInv'
    <2>1. checkpoint # NoCheckpoint => checkpoint.counter = checkpoint.ok
      BY DEF SerialInv
    <2>2. ok_total' \in Int
      BY <1>5, ConstantTypes
    <2>3. shift_counter' = ok_total' + printed_count' /\ sticker' = ok_total' + printed_count'
      BY ONLY <1>5, <1>6, <2>2, PlusZero
    <2>4. pc' \notin {"append", "persist"}
      BY ONLY <1>6
    <2>5. checkpoint' # NoCheckpoint => checkpoint'.counter = checkpoint'.ok
      BY ONLY <1>4, <2>1
    <2> QED BY ONLY <1>6, <2>3, <2>4, <2>5 DEF SerialInv
  <1>11. PendingInv'
    BY <1>6 DEF PendingInv
  <1> QED BY <1>7, <1>8, <1>9, <1>10, <1>11, TypePartsNext

LEMMA CloseCore ==
  ASSUME CoreInv, Close
  PROVE  CoreInv'
  <1> USE DEF CoreInv
  <1>1. ClockType /\ CountType /\ RamType /\ FlashType /\ LabelType /\ HistoryType
    BY TypeParts
  <1>2. CASE CloseWindow
    <2>1. Len(home) \in Windows
      BY <1>1, <1>2, LastWindow DEF CloseWindow
    <2>2. /\ shift_counter = ok_total + printed_count
          /\ ok_total' = ok_total + printed_count /\ sticker' = ok_total'
          /\ shift_counter' = shift_counter
          /\ totals' = totals \cup {Len(home)} /\ folded' = folded \cup {Len(home)}
          /\ WriteCheckpoint(totals', ok_total')
          /\ checkpoint # NoCheckpoint => checkpoint.counter = checkpoint.ok
      BY <1>2 DEF CloseWindow, SerialInv
    <2>3. totals' \in SUBSET Windows /\ folded' \in SUBSET Windows /\ ok_total' \in 0 .. MaxSerial
      BY <1>1, <2>1, <2>2 DEF RamType, HistoryType, CountType
    <2>4. /\ checkpoint' \in Checkpoints
          /\ checkpoint' # NoCheckpoint => checkpoint'.counter = checkpoint'.ok
      BY <2>2, <2>3, WriteCheckpointType
    <2>5. CASE pending # NoPending
      <3>1. /\ pc' = "append" /\ window' = window /\ printed_count' = printed_count
            /\ check_due_after_close' = check_due_after_close
        BY <1>2, <2>5 DEF CloseWindow
      <3>2. ClockType' /\ LabelType' /\ HistoryType' /\ FlashType'
        BY <1>1, <1>2, <2>3, <2>4, <3>1 DEF CloseWindow, ClockType, LabelType, HistoryType,
                                            FlashType, clock
      <3>3. CountType' /\ RamType'
        BY <1>1, <1>2, <2>2, <2>3, <3>1 DEF CloseWindow, CountType, RamType
      <3>4. SerialInv' /\ PendingInv'
        BY <1>1, <1>2, <2>2, <2>4, <2>5, <3>1 DEF CloseWindow, CountType, SerialInv, PendingInv
      <3> QED BY <3>2, <3>3, <3>4, TypePartsNext
    <2>6. CASE pending = NoPending
      <3>1. /\ pc' = pc /\ pc' = "run" /\ window' = "CYCLE" /\ printed_count' = 0
            /\ check_due_after_close' = TRUE
        BY <1>2, <2>6 DEF CloseWindow, EnterCycle
      <3>2. ClockType' /\ LabelType' /\ HistoryType' /\ FlashType'
        BY <1>1, <1>2, <2>3, <2>4, <3>1 DEF CloseWindow, ClockType, LabelType, HistoryType,
                                            FlashType, clock
      <3>3. CountType' /\ RamType'
        BY <1>1, <1>2, <2>2, <2>3, <3>1, ConstantTypes DEF CloseWindow, CountType, RamType
      <3>4. SerialInv' /\ PendingInv'
        BY <1>1, <1>2, <2>2, <2>4, <2>6, <3>1 DEF CloseWindow, CountType, SerialInv, PendingInv
      <3> QED BY <3>2, <3>3, <3>4, TypePartsNext
    <2> QED BY <2>5, <2>6
  <1>3. CASE ApplyRollover
    <2>1. pending \in [shift: Shifts, date: Dates]
      BY <1>1, <1>3 DEF ApplyRollover, PendingInv, RamType
    <2>2. Rollover(pending.shift, pending.date)
      BY <1>3 DEF ApplyRollover
    <2>3. /\ stats' \in Seq(Entries)
          /\ totals' = {} /\ shift_counter' = 0 /\ ok_total' = 0 /\ sticker' = 0
          /\ current_shift' = pending.shift /\ shift_rec_date' = pending.date
      BY <2>1, <2>2, RolloverCore
    <2>4. ClockType' /\ LabelType' /\ HistoryType' /\ FlashType'
      BY <1>1, <1>3, <2>3 DEF ApplyRollover, ClockType, LabelType, HistoryType, FlashType, clock, due, history
    <2>5. CountType' /\ RamType'
      BY <1>1, <1>3, <2>1, <2>3, ConstantTypes DEF ApplyRollover, CountType, RamType
    <2>6. SerialInv' /\ PendingInv'
      BY <1>3, <2>3 DEF ApplyRollover, SerialInv, PendingInv, history
    <2> QED BY <2>4, <2>5, <2>6, TypePartsNext
  <1>4. CASE PersistRollover
    <2>1. /\ totals \in SUBSET Windows /\ ok_total \in 0 .. MaxSerial /\ ok_total = shift_counter
          /\ WriteCheckpoint(totals, ok_total)
          /\ checkpoint # NoCheckpoint => checkpoint.counter = checkpoint.ok
      BY <1>1, <1>4 DEF PersistRollover, RamType, CountType, SerialInv
    <2>2. /\ checkpoint' \in Checkpoints
          /\ checkpoint' # NoCheckpoint => checkpoint'.counter = checkpoint'.ok
      BY <2>1, WriteCheckpointType
    <2>3. ClockType' /\ LabelType' /\ HistoryType' /\ FlashType'
      BY <1>1, <1>4, <2>2 DEF PersistRollover, EnterCycle, ClockType, LabelType, HistoryType,
                              FlashType, clock, history
    <2>4. CountType' /\ RamType'
      BY <1>1, <1>4, ConstantTypes DEF PersistRollover, EnterCycle, CountType, RamType, books
    <2>5. SerialInv' /\ PendingInv'
      BY <1>1, <1>4, <2>1, <2>2 DEF PersistRollover, EnterCycle, CountType, SerialInv, PendingInv, books, history
    <2> QED BY <2>3, <2>4, <2>5, TypePartsNext
  <1> QED BY <1>2, <1>3, <1>4 DEF Close
(* Power failure, the opening of a window and a label in an open one *)
LEMMA CrashCore ==
  ASSUME CoreInv, Crash
  PROVE  CoreInv'
  <1> USE DEF CoreInv
  <1>1. ClockType /\ CountType /\ RamType /\ FlashType /\ LabelType /\ HistoryType
    BY TypeParts
  <1>2. ClockType'
    <2>1. crashes' \in 0 .. MaxCrashes
      BY <1>1, ConstantTypes DEF Crash, ClockType
    <2> QED BY <1>1, <2>1, Zenon DEF Crash, ClockType, clock, history
  <1>3. CountType' /\ RamType'
    BY <1>1, ConstantTypes DEF Crash, CountType, RamType
  <1>4. FlashType' /\ LabelType' /\ HistoryType'
    BY <1>1 DEF Crash, FlashType, LabelType, HistoryType, flash, history
  <1>5. SerialInv' /\ PendingInv'
    BY <1>1 DEF Crash, SerialInv, PendingInv, flash
  <1> QED BY <1>2, <1>3, <1>4, <1>5, TypePartsNext

LEMMA WindowCore ==
  ASSUME CoreInv, OpenByScan \/ OpenByTimer \/ PrintInWindow
  PROVE  CoreInv'
  <1> USE DEF CoreInv
  <1>1. ClockType /\ CountType /\ RamType /\ FlashType /\ LabelType /\ HistoryType
    BY TypeParts
  <1>2. CASE OpenByScan
    <2>1. /\ home' \in Seq(ShiftsBegun) /\ Len(home') <= MaxWindows /\ Len(home') \in Windows
          /\ window' = "WINDOW"
      BY <1>2, OpenWindowCore DEF OpenByScan
    <2>2. home' # << >>
      BY <2>1, EmptySeq, ConstantTypes DEF Windows
    <2>3. /\ CountType' /\ LabelType'
          /\ shift_counter' = ok_total + printed_count' /\ sticker' = ok_total + printed_count'
      BY <1>2, <2>1, PrintLabelCore DEF OpenByScan
    <2>4. ClockType' /\ RamType' /\ FlashType' /\ HistoryType'
      BY <1>1, <1>2, <2>1 DEF OpenByScan, ClockType, RamType, FlashType, HistoryType, clock, flash,
                              due
    <2>5. SerialInv' /\ PendingInv'
      BY <1>2, <2>1, <2>2, <2>3 DEF OpenByScan, SerialInv, PendingInv, flash
    <2> QED BY <2>3, <2>4, <2>5, TypePartsNext
  <1>3. CASE OpenByTimer
    <2>1. /\ home' \in Seq(ShiftsBegun) /\ Len(home') <= MaxWindows /\ Len(home') \in Windows
          /\ window' = "WINDOW"
      BY <1>3, OpenWindowCore DEF OpenByTimer
    <2>2. home' # << >>
      BY <2>1, EmptySeq, ConstantTypes DEF Windows
    <2>3. ClockType' /\ RamType' /\ FlashType' /\ HistoryType' /\ CountType' /\ LabelType'
      BY <1>1, <1>3, <2>1 DEF OpenByTimer, ClockType, RamType, FlashType, HistoryType, CountType,
                              LabelType, clock, flash, due, books
    <2>4. SerialInv' /\ PendingInv'
      BY <1>3, <2>1, <2>2 DEF OpenByTimer, SerialInv, PendingInv, flash, books
    <2> QED BY <2>3, <2>4, TypePartsNext
  <1>4. CASE PrintInWindow
    <2>1. Len(home) \in Windows
      BY <1>1, <1>4, LastWindow DEF PrintInWindow
    <2>2. /\ CountType' /\ LabelType'
          /\ shift_counter' = ok_total + printed_count' /\ sticker' = ok_total + printed_count'
      BY <1>4, <2>1, PrintLabelCore DEF PrintInWindow
    <2>3. ClockType' /\ RamType' /\ FlashType' /\ HistoryType'
      BY <1>1, <1>4 DEF PrintInWindow, ClockType, RamType, FlashType, HistoryType, clock, flash, due
    <2>4. SerialInv' /\ PendingInv'
      BY <1>4, <2>2 DEF PrintInWindow, SerialInv, PendingInv, flash
    <2> QED BY <2>2, <2>3, <2>4, TypePartsNext
  <1> QED BY <1>2, <1>3, <1>4

LEMMA ShiftCheckCore ==
  ASSUME CoreInv, ShiftCheck
  PROVE  CoreInv'
  <1> USE DEF CoreInv
  <1>1. ClockType /\ CountType /\ RamType /\ FlashType /\ LabelType /\ HistoryType
    BY TypeParts
  <1>2. /\ ShiftOf(minute) \in Shifts /\ DateOf(minute) \in Dates
    BY <1>1, CalendarTypes DEF ClockType
  <1>3. CheckDone
    BY DEF ShiftCheck, CheckUnreadable, CheckDefers, CheckRollsOver, CheckSameShift
  <1>4. ClockType' /\ LabelType' /\ HistoryType' /\ checkpoint' = checkpoint
    <2>1. seen' \in Minutes
      BY <1>1, <1>3 DEF CheckDone, ClockType
    <2> QED BY <1>1, <1>3, <2>1 DEF CheckDone, ClockType, LabelType, HistoryType, clock
  <1>5. CASE CheckUnreadable
    <2>1. CountType' /\ RamType' /\ FlashType'
      BY <1>1, <1>3, <1>5 DEF CheckUnreadable, CheckDone, CountType, RamType, FlashType, books
    <2>2. SerialInv' /\ PendingInv'
      BY <1>3, <1>5 DEF CheckUnreadable, CheckDone, SerialInv, PendingInv, books
    <2> QED BY <1>4, <2>1, <2>2, TypePartsNext
  <1>6. CASE CheckDefers
    <2>1. CountType' /\ RamType' /\ FlashType'
      BY <1>1, <1>2, <1>3, <1>6 DEF CheckDefers, CheckDone, CountType, RamType, FlashType, books
    <2>2. SerialInv' /\ PendingInv'
      BY <1>3, <1>6 DEF CheckDefers, CheckDone, SerialInv, PendingInv, books
    <2> QED BY <1>4, <2>1, <2>2, TypePartsNext
  <1>7. CASE CheckRollsOver
    <2>1. /\ stats' \in Seq(Entries)
          /\ totals' = {} /\ shift_counter' = 0 /\ ok_total' = 0 /\ sticker' = 0
          /\ current_shift' = ShiftOf(minute) /\ shift_rec_date' = DateOf(minute)
      BY <1>2, <1>7, RolloverCore DEF CheckRollsOver
    <2>2. CountType' /\ RamType' /\ FlashType'
      BY <1>1, <1>2, <1>3, <1>7, <2>1, ConstantTypes
      DEF CheckRollsOver, CheckDone, CountType, RamType, FlashType
    <2>3. SerialInv' /\ PendingInv'
      BY <1>3, <1>7, <2>1 DEF CheckRollsOver, CheckDone, SerialInv, PendingInv
    <2> QED BY <1>4, <2>2, <2>3, TypePartsNext
  <1>8. CASE CheckSameShift
    <2>1. CountType' /\ RamType' /\ FlashType'
      BY <1>1, <1>2, <1>3, <1>8 DEF CheckSameShift, CheckDone, CountType, RamType, FlashType
    <2>2. SerialInv' /\ PendingInv'
      BY <1>3, <1>8 DEF CheckSameShift, CheckDone, SerialInv, PendingInv
    <2> QED BY <1>4, <2>1, <2>2, TypePartsNext
  <1> QED BY <1>5, <1>6, <1>7, <1>8 DEF ShiftCheck

(* The console and the environment *)
LEMMA OutsideCore ==
  ASSUME CoreInv, SetClock \/ ResetData \/ ClockAdvance \/ RtcComesOrGoes \/ PartitionChanges
  PROVE  CoreInv'
  <1> USE DEF CoreInv
  <1>1. ClockType /\ CountType /\ RamType /\ FlashType /\ LabelType /\ HistoryType
    BY TypeParts
  <1>2. CASE SetClock
    <2>1. minute' \in Minutes /\ clock_sets' \in 0 .. MaxClockSets
      BY <1>1, <1>2, ConstantTypes DEF SetClock, ClockType
    <2>2. ShiftOf(minute') \in Shifts
      BY <2>1, CalendarTypes
    <2>3. ClockType'
      BY <1>1, <1>2, <2>1, Zenon DEF SetClock, ClockType, history
    <2>4. CountType' /\ RamType' /\ FlashType' /\ LabelType' /\ HistoryType'
      BY <1>1, <1>2, <2>2 DEF SetClock, CountType, RamType, FlashType, LabelType, HistoryType,
                              flash, history
    <2>5. SerialInv' /\ PendingInv'
      BY <1>2 DEF SetClock, SerialInv, PendingInv, flash, history
    <2> QED BY <2>3, <2>4, <2>5, TypePartsNext
  <1>3. CASE ResetData
    <2>1. << >> \in Seq(Entries)
      BY EmptySeq
    <2>2. ClockType'
      BY <1>1, <1>3 DEF ResetData, ClockType, clock, due
    <2>3. CountType' /\ RamType' /\ FlashType' /\ LabelType' /\ HistoryType'
      BY <1>1, <1>3, <2>1 DEF ResetData, CountType, RamType, FlashType, LabelType, HistoryType,
                              books, Checkpoints
    <2>4. SerialInv' /\ PendingInv'
      BY <1>3 DEF ResetData, SerialInv, PendingInv, books
    <2> QED BY <2>2, <2>3, <2>4, TypePartsNext
  <1>4. CASE ClockAdvance
    <2>1. minute' \in Minutes
      BY <1>1, <1>4, ConstantTypes DEF ClockAdvance, ClockType, Minutes
    <2>2. check_due' \in BOOLEAN
      BY <1>4, Zenon DEF ClockAdvance
    <2>3. ClockType'
      BY <1>1, <1>4, <2>1, <2>2, Zenon DEF ClockAdvance, ClockType, history
    <2>4. CountType' /\ RamType' /\ FlashType' /\ LabelType' /\ HistoryType'
      BY <1>1, <1>4 DEF ClockAdvance, CountType, RamType, FlashType, LabelType, HistoryType, books,
                        flash, history
    <2>5. SerialInv' /\ PendingInv'
      BY <1>4 DEF ClockAdvance, SerialInv, PendingInv, books, flash, history
    <2> QED BY <2>3, <2>4, <2>5, TypePartsNext
  <1>5. CASE RtcComesOrGoes \/ PartitionChanges
    <2>1. ClockType'
      <3>1. rtc_ok' \in BOOLEAN /\ partition' \in Partitions
        BY <1>1, <1>5, Zenon DEF RtcComesOrGoes, PartitionChanges, ClockType, clock
      <3> QED BY <1>1, <1>5, <3>1 DEF RtcComesOrGoes, PartitionChanges, ClockType, history, due, clock
    <2>2. CountType' /\ RamType' /\ FlashType' /\ LabelType' /\ HistoryType'
      BY <1>1, <1>5 DEF RtcComesOrGoes, PartitionChanges, CountType, RamType, FlashType, LabelType,
                        HistoryType, books, flash, history
    <2>3. SerialInv' /\ PendingInv'
      BY <1>5 DEF RtcComesOrGoes, PartitionChanges, SerialInv, PendingInv, books, flash, history
    <2> QED BY <2>1, <2>2, <2>3, TypePartsNext
  <1> QED BY <1>2, <1>3, <1>4, <1>5

LEMMA NextCore == CoreInv /\ [Next]_vars => CoreInv'
  <1> SUFFICES ASSUME CoreInv, [Next]_vars PROVE CoreInv'
    OBVIOUS
  <1>1. CASE Next
    BY <1>1, BootCore, CrashCore, WindowCore, CloseCore, ShiftCheckCore, OutsideCore DEF Next
  <1>2. CASE UNCHANGED vars
    <2>1. TypeOK'
      BY <1>2 DEF CoreInv, TypeOK, vars, clock, books, flash, due, history
    <2>2. SerialInv' /\ PendingInv'
      BY <1>2 DEF CoreInv, SerialInv, PendingInv, vars, clock, books, flash, due, history
    <2> QED BY <2>1, <2>2 DEF CoreInv
  <1> QED BY <1>1, <1>2

(* The types, the sums of the serials and the deferral hold in every        *)
(* behaviour, whatever power, clock, RTC and flash do.                      *)
THEOREM CoreInvariant == Spec => []CoreInv
  <1>1. Init => CoreInv
    BY InitCore
  <1>2. CoreInv /\ [Next]_vars => CoreInv'
    BY NextCore
  <1> QED BY <1>1, <1>2, PTL DEF Spec

(* Every variable of the books keeps its type.                              *)
THEOREM TypeCorrect == Spec => []TypeOK
  <1>1. CoreInv => TypeOK
    BY DEF CoreInv
  <1> QED BY <1>1, CoreInvariant, PTL

(* The serial of the next label counts the parts of the shift, also after a *)
(* resumed checkpoint and a rollover, deferred or not.                      *)
THEOREM SerialsMatch == Spec => []SerialsMatchParts
  <1>1. CoreInv => SerialsMatchParts
    BY DEF CoreInv, SerialInv, SerialsMatchParts
  <1> QED BY <1>1, CoreInvariant, PTL

(* The STICKER field shows the parts of the shift in RAM, also after a boot.*)
THEOREM StickerCorrect == Spec => []StickerShowsShift
  <1>1. CoreInv => StickerShowsShift
    BY DEF CoreInv, SerialInv, StickerShowsShift
  <1> QED BY <1>1, CoreInvariant, PTL

(* A deferred rollover does not outlive the window it waits for.            *)
THEOREM DeferralEnds == Spec => []PendingOnlyInWindow
  <1>1. CoreInv => PendingOnlyInWindow
    BY DEF CoreInv, PendingInv, PendingOnlyInWindow
  <1> QED BY <1>1, CoreInvariant, PTL

(* While a window stays open nothing leaves the totals and the serial does   *)
(* not go back, whichever of the loop, the console and the clock steps.      *)
THEOREM TotalsStandUnderWindow == Spec => NoRolloverUnderOpenWindow
  <1> DEFINE Stands == window = "WINDOW" /\ pc = "run" /\ pc' = "run" =>
                         totals \subseteq totals' /\ shift_counter <= shift_counter'
  <1>1. CoreInv /\ [Next]_vars => [Stands]_vars
    <2> SUFFICES ASSUME CoreInv, Next, window = "WINDOW", pc = "run", pc' = "run"
                 PROVE  totals \subseteq totals' /\ shift_counter <= shift_counter'
      OBVIOUS
    <2>1. shift_counter \in Nat
      BY TypeParts, ConstantTypes DEF CoreInv, CountType
    <2>2. ~Boot /\ ~Crash /\ ~OpenByScan /\ ~OpenByTimer /\ ~ApplyRollover /\ ~PersistRollover
      BY DEF Boot, Crash, OpenByScan, OpenByTimer, ApplyRollover, PersistRollover
    <2>3. CASE PrintInWindow
      BY <2>1, <2>3 DEF PrintInWindow, PrintLabel
    <2>4. CASE CloseWindow
      BY <2>1, <2>4 DEF CloseWindow
    <2>5. CASE ShiftCheck
      BY <2>1, <2>5 DEF ShiftCheck, CheckUnreadable, CheckDefers, CheckRollsOver, CheckSameShift, books
    <2>6. CASE SetClock \/ ResetData \/ ClockAdvance \/ RtcComesOrGoes \/ PartitionChanges
      BY <2>1, <2>6 DEF SetClock, ResetData, ClockAdvance, RtcComesOrGoes, PartitionChanges, books
    <2> QED BY <2>2, <2>3, <2>4, <2>5, <2>6 DEF Next, Close
  <1> QED BY <1>1, CoreInvariant, PTL DEF Spec, NoRolloverUnderOpenWindow

-----------------------------------------------------------------------------
(* Nothing is lost while the RTC can be read and no write to flash fails.   *)

Finalized(w) == \E i \in DOMAIN stats : w \in stats[i].windows
Checkpointed(w) == checkpoint # NoCheckpoint /\ w \in checkpoint.windows

(* What is in the checkpoint alone is in the totals too as long as the power *)
(* lasts, so that no write of the checkpoint can drop it; and a shift with a *)
(* date is known, so that no write leaves an unreadable line.                *)
LossInv ==
  /\ rtc_ok /\ Mounted
  /\ pc # "off" => current_shift # "none" /\ shift_rec_date # NoDate
  /\ \A w \in folded : Finalized(w) \/ (Checkpointed(w) /\ (pc # "off" => w \in totals))

(* A line keeps the lines before it. *)
LEMMA LineAdded ==
  ASSUME stats \in Seq(Entries), NEW date, NEW shift, NEW windows,
         [date |-> date, shift |-> shift, windows |-> windows] \in Entries,
         stats' = Append(stats, [date |-> date, shift |-> shift, windows |-> windows])
  PROVE  /\ Len(stats') = Len(stats) + 1 /\ Len(stats) \in Nat
         /\ DOMAIN stats' = 1 .. Len(stats) + 1 /\ DOMAIN stats = 1 .. Len(stats)
         /\ \A i \in DOMAIN stats : stats'[i] = stats[i]
         /\ stats'[Len(stats) + 1] = [date |-> date, shift |-> shift, windows |-> windows]
  <1> DEFINE line == [date |-> date, shift |-> shift, windows |-> windows]
  <1>1. stats' = Append(stats, line)
    OBVIOUS
  <1> HIDE DEF line
  <1>2. line \in Entries
    BY DEF line
  <1>3. /\ stats' \in Seq(Entries) /\ Len(stats') = Len(stats) + 1 /\ Len(stats) \in Nat
        /\ \A i \in 1 .. Len(stats) : stats'[i] = stats[i]
        /\ stats'[Len(stats) + 1] = line
    BY <1>1, <1>2, AppendProperties, LenProperties
  <1>4. DOMAIN stats = 1 .. Len(stats) /\ DOMAIN stats' = 1 .. Len(stats')
    BY <1>3, LenProperties
  <1> QED BY <1>3, <1>4 DEF line

LEMMA FinalizedGrows ==
  ASSUME stats \in Seq(Entries), Mounted, ~FlashMayFail, NEW date \in Dates \cup {NoDate},
         NEW shift \in Shifts \cup {"none"}, NEW windows \in SUBSET Windows,
         WriteShiftStats(date, shift, windows)
  PROVE  /\ \A w \in windows : Finalized(w)'
         /\ \A w : Finalized(w) => Finalized(w)'
  <1>1. [date |-> date, shift |-> shift, windows |-> windows] \in Entries
    BY DEF Entries
  <1>2. /\ Len(stats) \in Nat
        /\ DOMAIN stats' = 1 .. Len(stats) + 1 /\ DOMAIN stats = 1 .. Len(stats)
        /\ \A i \in DOMAIN stats : stats'[i] = stats[i]
        /\ stats'[Len(stats) + 1] = [date |-> date, shift |-> shift, windows |-> windows]
    BY <1>1, LineAdded DEF WriteShiftStats
  <1>3. \A w \in windows : Finalized(w)'
    <2> SUFFICES ASSUME NEW w \in windows PROVE Finalized(w)'
      OBVIOUS
    <2>1. Len(stats) + 1 \in DOMAIN stats' /\ w \in stats'[Len(stats) + 1].windows
      BY <1>2
    <2> QED BY <2>1 DEF Finalized
  <1>4. \A w : Finalized(w) => Finalized(w)'
    <2> SUFFICES ASSUME NEW w, Finalized(w) PROVE Finalized(w)'
      OBVIOUS
    <2>1. PICK i \in DOMAIN stats : w \in stats[i].windows
      BY DEF Finalized
    <2>2. i \in DOMAIN stats' /\ w \in stats'[i].windows
      BY <1>2, <2>1
    <2> QED BY <2>2 DEF Finalized
  <1> QED BY <1>3, <1>4

(* Neither the RTC nor flash fails where neither may.                       *)
LEMMA HardwareStep ==
  ASSUME CoreInv, [Next]_vars
  PROVE  /\ ~RtcMayFail /\ rtc_ok => rtc_ok'
         /\ ~FlashMayFail /\ Mounted => Mounted'
         /\ crashes' = crashes \/ (Crash /\ crashes' = crashes + 1)
         /\ clock_sets' = clock_sets \/ (SetClock /\ clock_sets < MaxClockSets)
  <1>1. CASE Boot \/ Crash
    BY <1>1 DEF Boot, MountFlash, Crash, Mounted, clock
  <1>2. CASE OpenByScan \/ OpenByTimer \/ PrintInWindow
    BY <1>2 DEF Mounted, OpenByScan, OpenByTimer, PrintInWindow, clock
  <1>3. CASE Close
    BY <1>3 DEF Mounted, Close, CloseWindow, ApplyRollover, PersistRollover, clock
  <1>4. CASE ShiftCheck
    BY <1>4 DEF Mounted, ShiftCheck, CheckUnreadable, CheckDefers, CheckRollsOver, CheckSameShift,
                       CheckDone, clock
  <1>5. CASE SetClock \/ ResetData
    BY <1>5 DEF Mounted, SetClock, ResetData, clock
  <1>6. CASE ClockAdvance \/ RtcComesOrGoes \/ PartitionChanges
    BY <1>6 DEF Mounted, ClockAdvance, RtcComesOrGoes, PartitionChanges, clock
  <1>7. CASE UNCHANGED vars
    BY <1>7 DEF Mounted, vars, clock
  <1> QED BY <1>1, <1>2, <1>3, <1>4, <1>5, <1>6, <1>7 DEF Next

LEMMA RolloverBooks ==
  ASSUME CoreInv, Mounted, ~FlashMayFail, NEW shift, NEW date, Rollover(shift, date)
  PROVE  /\ \A w \in totals : Finalized(w)'
         /\ \A w : Finalized(w) => Finalized(w)'
  <1>1. /\ stats \in Seq(Entries) /\ shift_rec_date \in Dates \cup {NoDate}
        /\ current_shift \in Shifts \cup {"none"} /\ totals \in SUBSET Windows
    BY DEF CoreInv, TypeOK
  <1>2. WriteShiftStats(shift_rec_date, current_shift, totals)
    BY DEF Rollover
  <1> QED BY <1>1, <1>2, FinalizedGrows

LEMMA LossStep ==
  ASSUME ~RtcMayFail, ~FlashMayFail, CoreInv, LossInv, [Next]_vars
  PROVE  LossInv'
  <1>1. rtc_ok' /\ Mounted'
    BY HardwareStep DEF LossInv
  <1>2. /\ DateOf(minute) \in Dates /\ ShiftOf(minute) \in Shifts
        /\ \A d \in Dates : d # NoDate
        /\ \A s \in Shifts : s # "none"
        /\ stats \in Seq(Entries)
    BY CalendarTypes, NoDateIsNone DEF CoreInv, TypeOK, Shifts
  <1> DEFINE Known == pc # "off" => current_shift # "none" /\ shift_rec_date # NoDate
             Safe(w) == Finalized(w) \/ (Checkpointed(w) /\ (pc # "off" => w \in totals))
  <1>3. Known /\ \A w \in folded : Safe(w)
    BY DEF LossInv
  <1>4. CASE Boot
    <2>1. checkpoint # NoCheckpoint =>
            /\ checkpoint.date \in Dates /\ checkpoint.shift \in Shifts
            /\ checkpoint.windows \in SUBSET Windows
      BY DEF CoreInv, TypeOK, Checkpoints
    <2>2. Known'
      BY <1>2, <1>4, <2>1 DEF Boot, Resumes, Found, Mounted, LossInv
    <2>3. CASE Resumes
      <3>1. totals' = checkpoint.windows /\ UNCHANGED <<stats, checkpoint, folded>>
        BY <1>4, <2>3 DEF Boot, MountFlash, Mounted, LossInv
      <3> QED BY <1>1, <1>3, <2>2, <3>1 DEF LossInv, Finalized, Checkpointed
    <2>4. CASE ~Resumes
      <3>1. UNCHANGED <<checkpoint, folded>>
        BY <1>4 DEF Boot, MountFlash, Mounted, LossInv
      <3>2. CASE checkpoint = NoCheckpoint
        BY <1>1, <1>3, <1>4, <2>2, <2>4, <3>1, <3>2 DEF Boot, Found, Mounted, LossInv, Finalized,
                                                            Checkpointed
      <3>3. CASE checkpoint # NoCheckpoint
        <4>1. WriteShiftStats(checkpoint.date, checkpoint.shift, checkpoint.windows)
          <5>1. Found
            BY <3>3 DEF Found, LossInv
          <5> QED BY <1>4, <2>4, <5>1 DEF Boot
        <4>2. /\ \A w \in checkpoint.windows : Finalized(w)'
              /\ \A w : Finalized(w) => Finalized(w)'
          BY <1>2, <2>1, <3>3, <4>1, FinalizedGrows DEF LossInv
        <4> QED BY <1>1, <1>3, <2>2, <3>1, <4>2 DEF LossInv, Checkpointed
      <3> QED BY <3>2, <3>3
    <2> QED BY <2>3, <2>4
  <1>5. CASE Crash
    BY <1>1, <1>3, <1>5 DEF Crash, LossInv, Finalized, Checkpointed, flash, history
  <1>6. CASE OpenByScan \/ OpenByTimer \/ PrintInWindow
    BY <1>1, <1>3, <1>6 DEF OpenByScan, OpenByTimer, PrintInWindow, LossInv, Finalized, Checkpointed,
                            books, flash
  <1>7. CASE CloseWindow
    <2>1. /\ checkpoint' # NoCheckpoint /\ checkpoint'.windows = totals'
          /\ totals' = totals \cup {Len(home)} /\ folded' = folded \cup {Len(home)}
          /\ UNCHANGED <<stats, current_shift, shift_rec_date>>
          /\ pc # "off"
      BY <1>3, <1>7 DEF CloseWindow, WriteCheckpoint, LossInv, NoCheckpoint
    <2>2. Known'
      BY <1>3, <2>1
    <2> QED BY <1>1, <1>3, <2>1, <2>2 DEF LossInv, Finalized, Checkpointed
  <1>8. CASE ApplyRollover
    <2>1. pending.date \in Dates /\ pending.shift \in Shifts
      BY <1>8 DEF ApplyRollover, CoreInv, TypeOK, PendingInv
    <2>2. /\ \A w \in totals : Finalized(w)'
          /\ \A w : Finalized(w) => Finalized(w)'
      BY <1>8, RolloverBooks DEF ApplyRollover, LossInv
    <2>3. Known'
      BY <1>2, <1>8, <2>1 DEF ApplyRollover, Rollover
    <2>4. folded' = folded /\ pc # "off"
      BY <1>8 DEF ApplyRollover, history
    <2> QED BY <1>1, <1>3, <2>2, <2>3, <2>4 DEF LossInv
  <1>9. CASE PersistRollover
    <2>1. /\ checkpoint' # NoCheckpoint /\ checkpoint'.windows = totals
          /\ UNCHANGED <<stats, current_shift, shift_rec_date, totals, folded>>
          /\ pc # "off"
      BY <1>3, <1>9 DEF PersistRollover, WriteCheckpoint, LossInv, NoCheckpoint, books, history
    <2>2. Known'
      BY <1>3, <2>1
    <2> QED BY <1>1, <1>3, <2>1, <2>2 DEF LossInv, Finalized, Checkpointed
  <1>10. CASE ShiftCheck
    <2>1. pc = "run" /\ pc' = "run" /\ UNCHANGED <<checkpoint, folded>>
      BY <1>10 DEF ShiftCheck, CheckUnreadable, CheckDefers, CheckRollsOver, CheckSameShift, CheckDone
    <2>2. CASE CheckRollsOver
      <3>1. /\ \A w \in totals : Finalized(w)'
            /\ \A w : Finalized(w) => Finalized(w)'
        BY <2>2, RolloverBooks DEF CheckRollsOver, LossInv
      <3>2. Known'
        BY <1>2, <2>2 DEF CheckRollsOver, Rollover
      <3> QED BY <1>1, <1>3, <2>1, <3>1, <3>2 DEF LossInv
    <2>3. CASE CheckDefers
      BY <1>1, <1>3, <2>1, <2>3 DEF CheckDefers, LossInv, Finalized, Checkpointed, books
    <2>4. CASE CheckSameShift
      BY <1>1, <1>2, <1>3, <2>1, <2>4 DEF CheckSameShift, LossInv, Finalized, Checkpointed
    <2> QED BY <1>10, <2>2, <2>3, <2>4 DEF ShiftCheck, CheckUnreadable, LossInv
  <1>11. CASE SetClock
    <2>1. ShiftOf(minute') # "none"
      BY DEF ShiftOf
    <2> QED BY <1>1, <1>3, <1>11, <2>1 DEF SetClock, LossInv, Finalized, Checkpointed, flash, history
  <1>12. CASE ResetData
    BY <1>1, <1>3, <1>12 DEF ResetData, LossInv, books
  <1>13. CASE ClockAdvance \/ RtcComesOrGoes \/ PartitionChanges
    BY <1>1, <1>3, <1>13 DEF ClockAdvance, RtcComesOrGoes, PartitionChanges, LossInv, Finalized,
                             Checkpointed, books, flash, history
  <1>14. CASE UNCHANGED vars
    BY <1>1, <1>3, <1>14 DEF vars, LossInv, Finalized, Checkpointed, books, flash, history
  <1> QED BY <1>4, <1>5, <1>6, <1>7, <1>8, <1>9, <1>10, <1>11, <1>12, <1>13, <1>14 DEF Next, Close

(* While the RTC can be read and no write to flash fails, every window ever  *)
(* closed and not wiped is on flash, whenever and however often the power    *)
(* fails.                                                                    *)
THEOREM NothingIsLost ==
  ASSUME ~RtcMayFail, ~FlashMayFail
  PROVE  Spec => []NothingLost
  <1>1. Init => LossInv
    BY DEF Init, LossInv, Mounted
  <1>2. CoreInv /\ LossInv /\ [Next]_vars => LossInv'
    BY LossStep
  <1>3. LossInv => NothingLost
    BY DEF LossInv, NothingLost, Finalized, Checkpointed
  <1> QED BY <1>1, <1>2, <1>3, CoreInvariant, PTL DEF Spec

-----------------------------------------------------------------------------
(* No line without a date                                                   *)

RecordsDated ==
  /\ LinesDated
  /\ clock_sets = 0 /\ pc # "off" /\ Mounted /\ current_shift # "none" => shift_rec_date # NoDate
  /\ clock_sets = 0 /\ pending # NoPending => current_shift # "none"

LEMMA NoLines == DOMAIN << >> = {}
  OBVIOUS

(* A line written with a date leaves every line dated.                      *)
LEMMA DatedLine ==
  ASSUME stats \in Seq(Entries), \A i \in DOMAIN stats : stats[i].date # NoDate,
         NEW date \in Dates \cup {NoDate}, NEW shift \in Shifts \cup {"none"},
         NEW windows \in SUBSET Windows, WriteShiftStats(date, shift, windows),
         Mounted => date # NoDate
  PROVE  \A i \in DOMAIN stats' : stats'[i].date # NoDate
  <1>1. CASE Mounted /\ stats' = Append(stats, [date |-> date, shift |-> shift, windows |-> windows])
    <2>1. [date |-> date, shift |-> shift, windows |-> windows] \in Entries
      BY DEF Entries
    <2>2. /\ DOMAIN stats' = 1 .. Len(stats) + 1 /\ DOMAIN stats = 1 .. Len(stats)
          /\ Len(stats) \in Nat
          /\ \A i \in DOMAIN stats : stats'[i] = stats[i]
          /\ stats'[Len(stats) + 1].date = date
      BY <1>1, <2>1, LineAdded
    <2> QED BY <1>1, <2>2
  <1>2. CASE stats' = stats
    BY <1>2
  <1> QED BY <1>1, <1>2 DEF WriteShiftStats

LEMMA RolloverDates ==
  ASSUME CoreInv, \A i \in DOMAIN stats : stats[i].date # NoDate,
         NEW shift, NEW date, Rollover(shift, date), Mounted => shift_rec_date # NoDate
  PROVE  \A i \in DOMAIN stats' : stats'[i].date # NoDate
  <1>1. /\ stats \in Seq(Entries) /\ shift_rec_date \in Dates \cup {NoDate}
        /\ current_shift \in Shifts \cup {"none"} /\ totals \in SUBSET Windows
    BY DEF CoreInv, TypeOK
  <1>2. WriteShiftStats(shift_rec_date, current_shift, totals)
    BY DEF Rollover
  <1> QED BY <1>1, <1>2, DatedLine

(* While nobody sets the clock no undated line is written.  The strengthening *)
(* is that wherever the flash is mounted, so that a line can be written at    *)
(* all, a shift that is known has a date: every action that names the shift   *)
(* dates it, but for settime, and for setup() when it finds no file system.   *)
THEOREM RecordAnchored == Spec => []LinesDated
  <1> DEFINE Anchored == CoreInv /\ RecordsDated
  <1>1. Init => Anchored
    BY InitCore, NoLines DEF Init, RecordsDated, LinesDated
  <1>2. Anchored /\ [Next]_vars => Anchored'
    <2> SUFFICES ASSUME Anchored, [Next]_vars PROVE RecordsDated'
      BY NextCore
    <2>a. SUFFICES ASSUME clock_sets' = 0 PROVE RecordsDated'
      BY DEF RecordsDated, LinesDated
    <2>0. /\ DateOf(minute) # NoDate /\ clock_sets = 0 /\ ~SetClock
          /\ \A d \in Dates : d # NoDate
          /\ ShiftOf(minute) # "none" /\ \A c \in Shifts : c # "none"
      <3>1. DateOf(minute) # NoDate /\ \A d \in Dates : d # NoDate
        BY TypeParts, CalendarTypes, NoDateIsNone DEF CoreInv, ClockType
      <3>2. clock_sets \in Nat
        BY TypeParts, ConstantTypes DEF CoreInv, ClockType
      <3>3. ~SetClock
        BY <3>2, <2>a DEF SetClock
      <3>4. clock_sets' = clock_sets
        BY <3>3, HardwareStep
      <3> QED BY <2>a, <3>1, <3>3, <3>4 DEF ShiftOf, Shifts
    <2>1. /\ stats \in Seq(Entries)
          /\ \A i \in DOMAIN stats : stats[i].date # NoDate
          /\ pc # "off" /\ Mounted /\ current_shift # "none" => shift_rec_date # NoDate
          /\ pending # NoPending => current_shift # "none"
      BY <2>0 DEF RecordsDated, LinesDated, CoreInv, TypeOK
    <2> USE DEF RecordsDated, LinesDated
    <2>2. CASE Boot
      <3>1. Found => checkpoint.date \in Dates /\ checkpoint.shift \in Shifts
                       /\ checkpoint.windows \in SUBSET Windows
        BY DEF Found, CoreInv, TypeOK, Checkpoints
      <3>2. pc' # "off" /\ Mounted' /\ current_shift' # "none" => shift_rec_date' # NoDate
        BY <2>0, <2>2, <3>1 DEF Boot, MountFlash, Resumes, Mounted
      <3>3. \A i \in DOMAIN stats' : stats'[i].date # NoDate
        <4>1. CASE Found /\ ~Resumes
          <5>1. WriteShiftStats(checkpoint.date, checkpoint.shift, checkpoint.windows)
            BY <2>2, <4>1 DEF Boot
          <5> QED BY <2>0, <2>1, <3>1, <4>1, <5>1, DatedLine
        <4>2. CASE ~(Found /\ ~Resumes)
          <5>1. stats' = stats \/ stats' = << >>
            BY <2>2, <4>2 DEF Boot
          <5> QED BY <2>1, <5>1, NoLines
        <4> QED BY <4>1, <4>2
      <3>4. pending' = NoPending
        BY <2>2 DEF Boot, CoreInv, PendingInv
      <3> QED BY <3>2, <3>3, <3>4
    <2>3. CASE Crash
      BY <2>1, <2>3 DEF Crash, flash
    <2>4. CASE OpenByScan \/ OpenByTimer \/ PrintInWindow
      BY <2>1, <2>4 DEF OpenByScan, OpenByTimer, PrintInWindow, books, flash, Mounted
    <2>5. CASE CloseWindow
      BY <2>1, <2>5 DEF CloseWindow, Mounted
    <2>6. CASE ApplyRollover
      <3>1. /\ pending.date \in Dates /\ pending.shift \in Shifts /\ pc # "off" /\ UNCHANGED partition
            /\ Rollover(pending.shift, pending.date) /\ current_shift # "none"
        BY <2>1, <2>6 DEF ApplyRollover, CoreInv, TypeOK, PendingInv, clock
      <3>2. \A i \in DOMAIN stats' : stats'[i].date # NoDate
        BY <2>1, <3>1, RolloverDates
      <3> QED BY <2>0, <3>1, <3>2 DEF Rollover
    <2>7. CASE PersistRollover
      BY <2>1, <2>7 DEF PersistRollover, books, Mounted
    <2>8. CASE ShiftCheck
      <3>1. pc = "run" /\ UNCHANGED <<partition, pc>>
        BY <2>8 DEF ShiftCheck, CheckUnreadable, CheckDefers, CheckRollsOver, CheckSameShift, CheckDone
      <3>2. CASE CheckUnreadable \/ CheckDefers
        BY <2>1, <3>1, <3>2 DEF CheckUnreadable, CheckDefers, ShiftChanged, books, Mounted
      <3>3. CASE CheckRollsOver
        <4>1. current_shift # "none" /\ Rollover(ShiftOf(minute), DateOf(minute))
          BY <3>3 DEF CheckRollsOver, ShiftChanged
        <4>2. \A i \in DOMAIN stats' : stats'[i].date # NoDate
          BY <2>1, <3>1, <4>1, RolloverDates
        <4> QED BY <2>0, <3>1, <4>1, <4>2 DEF Rollover
      <3>4. CASE CheckSameShift
        BY <2>0, <2>1, <3>1, <3>4 DEF CheckSameShift, Mounted
      <3> QED BY <2>8, <3>2, <3>3, <3>4 DEF ShiftCheck
    <2>9. CASE ResetData
      <3>1. stats' = << >> /\ UNCHANGED <<partition, pc, current_shift, shift_rec_date, pending>>
        BY <2>9 DEF ResetData, books
      <3> QED BY <2>1, <3>1, NoLines DEF Mounted
    <2>10. CASE ClockAdvance \/ RtcComesOrGoes
      BY <2>1, <2>10 DEF ClockAdvance, RtcComesOrGoes, books, flash, Mounted
    <2>11. CASE PartitionChanges
      BY <2>1, <2>11 DEF PartitionChanges, books, flash
    <2>12. CASE UNCHANGED vars
      BY <2>1, <2>12 DEF vars, books, flash, Mounted
    <2> QED BY <2>0, <2>2, <2>3, <2>4, <2>5, <2>6, <2>7, <2>8, <2>9, <2>10, <2>11, <2>12
            DEF Next, Close
  <1>3. Anchored => LinesDated
    BY DEF RecordsDated
  <1> QED BY <1>1, <1>2, <1>3, PTL DEF Spec
=============================================================================
