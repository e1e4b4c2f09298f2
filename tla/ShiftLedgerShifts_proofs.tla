------------------------ MODULE ShiftLedgerShifts_proofs ------------------------
(* Theorems about what a shift is in ShiftLedger: which windows share a line, *)
(* which serials share a shift, and the book of shifts it implements.         *)
EXTENDS ShiftLedger_proofs

-----------------------------------------------------------------------------
(* The inductive invariants *)

Opened == 1 .. Len(home)

(* Every window the books name has been opened. *)
OpenedInv ==
  /\ totals \subseteq Opened /\ folded \subseteq Opened
  /\ checkpoint # NoCheckpoint => checkpoint.windows \subseteq Opened
  /\ \A i \in DOMAIN stats : stats[i].windows \subseteq Opened
  /\ \A p \in labels : p.window \in Opened

(* Windows are booked under the letter they opened in: the books know the    *)
(* letter of the last check, except between the close of a window and the    *)
(* check that follows it, when no window can open.                           *)
LetterInv ==
  /\ rtc_ok
  /\ pc # "off" => current_shift \in Shifts /\ \A w \in totals : home[w].shift = current_shift
  /\ checkpoint # NoCheckpoint => \A w \in checkpoint.windows : home[w].shift = checkpoint.shift
  /\ \A i \in DOMAIN stats : \A w \in stats[i].windows : home[w].shift = stats[i].shift
  /\ pc = "run" /\ window = "WINDOW" => home[Len(home)].shift = current_shift
  /\ pc = "run" /\ window # "WINDOW" /\ (window = "CYCLE" => ~check_due_after_close) =>
       current_shift = ShiftOf(seen)

(* The windows in hand: booked, or open. *)
InHand == IF window = "WINDOW" THEN totals \cup {Len(home)} ELSE totals

(* Until the power fails the loop checks the shift in every minute, so the   *)
(* windows in hand are of the shift of the last check, or of the one before  *)
(* while a rollover waits or has just been applied.                          *)
PageInv ==
  crashes = 0 =>
    /\ pc = "off" => minute = seen /\ checkpoint = NoCheckpoint /\ ~check_due
    /\ pc # "off" => minute = IF check_due THEN seen + 1 ELSE seen
    /\ pc = "run" /\ pending = NoPending =>
         \/ current_shift = ShiftOf(seen) /\ \A w \in InHand : home[w] = ShiftBegun(seen)
         \/ check_due_after_close /\ totals = {} /\ window = "CYCLE"
    /\ pc \in {"run", "append"} /\ pending # NoPending => SameShift(InHand)
    /\ pc = "persist" => totals = {}
    /\ \A i \in DOMAIN stats : SameShift(stats[i].windows)

(* Shifts in the order of time. *)
Rank(begun) == 2 * begun.date + (IF begun.shift = "B" THEN 1 ELSE 0)

(* Windows open in the order of time, and a rollover waits for a window that *)
(* opened in a shift now over.                                               *)
OrderInv ==
  /\ seen <= minute
  /\ \A v, w \in Opened : v <= w => Rank(home[v]) <= Rank(home[w])
  /\ \A w \in Opened : Rank(home[w]) <= Rank(ShiftBegun(seen))
  /\ pending # NoPending => \A w \in Opened : Rank(home[w]) < Rank(ShiftBegun(minute))

(* A label of a closed window of the shift the RTC shows. *)
Current(p) ==
  p.window \in folded /\ p.begun = home[p.window] /\ p.begun = ShiftBegun(minute)

(* The counter, and the one in the checkpoint, is at or past its serial. *)
Counted(p) ==
  /\ checkpoint # NoCheckpoint
  /\ p.serial <= checkpoint.counter /\ checkpoint.shift = p.begun.shift
  /\ pc # "off" => current_shift = p.begun.shift /\ p.serial <= shift_counter

(* No serial of the shift is given out again: not those of the open window,  *)
(* nor those of the windows closed, whose count the checkpoint keeps.        *)
CounterInv ==
  /\ pc = "run" /\ window = "WINDOW" =>
       /\ Len(home) \notin folded
       /\ \A p \in labels : p.window = Len(home) => p.serial <= shift_counter
  /\ \A p \in labels : Current(p) => Counted(p)

-----------------------------------------------------------------------------
(* What a step does to the windows, the lines and the checkpoint *)

LEMMA HomeType ==
  ASSUME CoreInv
  PROVE  /\ home \in Seq(ShiftsBegun) /\ Len(home) \in Nat
         /\ \A w \in Opened : home[w] \in ShiftsBegun
         /\ window = "WINDOW" => Len(home) \in Opened
  <1>1. home \in Seq(ShiftsBegun)
    BY DEF CoreInv, TypeOK
  <1>2. Len(home) \in Nat /\ \A w \in Opened : home[w] \in ShiftsBegun
    BY <1>1, ElementOfSeq, LenProperties DEF Opened
  <1>3. window = "WINDOW" => Len(home) \in Opened
    BY <1>1, <1>2, EmptySeq DEF Opened, CoreInv, PendingInv
  <1> QED BY <1>1, <1>2, <1>3

(* A window opens at the end of the others; no other step touches them.     *)
LEMMA OpenStep ==
  ASSUME CoreInv, OpenWindow
  PROVE  /\ Opened' = Opened \cup {Len(home')} /\ Len(home') \notin Opened
         /\ Len(home') = Len(home) + 1
         /\ \A w \in Opened : home'[w] = home[w]
         /\ home'[Len(home')] = ShiftBegun(seen)
  <1>1. /\ Len(home') = Len(home) + 1 /\ Len(home) \in Nat
        /\ \A w \in 1 .. Len(home) : home'[w] = home[w]
        /\ home'[Len(home')] = ShiftBegun(seen)
    BY OpenWindowCore, HomeType DEF CoreInv
  <1> QED BY <1>1 DEF Opened

LEMMA HomeStep ==
  ASSUME CoreInv, [Next]_vars
  PROVE  /\ OpenByScan \/ OpenByTimer \/ home' = home
         /\ Opened \subseteq Opened'
         /\ \A w \in Opened : home'[w] = home[w]
  <1>1. OpenByScan \/ OpenByTimer \/ home' = home
    BY DEF Next, Boot, Crash, PrintInWindow, Close, CloseWindow, ApplyRollover, PersistRollover,
           ShiftCheck, CheckUnreadable, CheckDefers, CheckRollsOver, CheckSameShift, CheckDone,
           SetClock, ResetData, ClockAdvance, RtcComesOrGoes, PartitionChanges, vars, history
  <1>2. CASE home' = home
    BY <1>1, <1>2 DEF Opened
  <1>3. CASE OpenByScan \/ OpenByTimer
    BY <1>1, <1>3, OpenStep DEF OpenByScan, OpenByTimer
  <1> QED BY <1>1, <1>2, <1>3

(* A line after a write is one from before, or the one written.             *)
LEMMA LinesAfter ==
  ASSUME stats \in Seq(Entries), NEW date \in Dates \cup {NoDate},
         NEW shift \in Shifts \cup {"none"}, NEW windows \in SUBSET Windows,
         WriteShiftStats(date, shift, windows)
  PROVE  \A i \in DOMAIN stats' :
           \/ i \in DOMAIN stats /\ stats'[i] = stats[i]
           \/ stats'[i] = [date |-> date, shift |-> shift, windows |-> windows]
  <1>1. CASE stats' = stats
    BY <1>1
  <1>2. CASE stats' = Append(stats, [date |-> date, shift |-> shift, windows |-> windows])
    <2>1. [date |-> date, shift |-> shift, windows |-> windows] \in Entries
      BY DEF Entries
    <2>2. /\ Len(stats) \in Nat
          /\ DOMAIN stats' = 1 .. Len(stats) + 1 /\ DOMAIN stats = 1 .. Len(stats)
          /\ \A i \in DOMAIN stats : stats'[i] = stats[i]
          /\ stats'[Len(stats) + 1] = [date |-> date, shift |-> shift, windows |-> windows]
      BY <1>2, <2>1, LineAdded
    <2>3. \A i \in 1 .. Len(stats) + 1 : i \in 1 .. Len(stats) \/ i = Len(stats) + 1
      BY <2>2
    <2> QED BY <2>2, <2>3
  <1> QED BY <1>1, <1>2 DEF WriteShiftStats

LEMMA BootLines ==
  ASSUME CoreInv, Boot
  PROVE  \A i \in DOMAIN stats' :
           \/ i \in DOMAIN stats /\ stats'[i] = stats[i]
           \/ /\ checkpoint # NoCheckpoint /\ ~Resumes
              /\ stats'[i] = [date |-> checkpoint.date, shift |-> checkpoint.shift,
                              windows |-> checkpoint.windows]
  <1>1. CASE Found /\ ~Resumes
    <2>1. /\ stats \in Seq(Entries)
          /\ checkpoint.date \in Dates /\ checkpoint.shift \in Shifts
          /\ checkpoint.windows \in SUBSET Windows
      BY <1>1 DEF Found, CoreInv, TypeOK, Checkpoints
    <2>2. WriteShiftStats(checkpoint.date, checkpoint.shift, checkpoint.windows)
      BY <1>1 DEF Boot
    <2>3. \A i \in DOMAIN stats' :
            \/ i \in DOMAIN stats /\ stats'[i] = stats[i]
            \/ stats'[i] = [date |-> checkpoint.date, shift |-> checkpoint.shift,
                            windows |-> checkpoint.windows]
      BY <2>1, <2>2, LinesAfter
    <2> QED BY <1>1, <2>3 DEF Found
  <1>2. CASE ~(Found /\ ~Resumes)
    <2>1. stats' = stats \/ stats' = << >>
      BY <1>2 DEF Boot
    <2> QED BY <2>1, NoLines
  <1> QED BY <1>1, <1>2

(* Booting leaves the checkpoint alone, or formats it away.                 *)
LEMMA BootCheckpoint ==
  ASSUME Boot
  PROVE  checkpoint' = checkpoint \/ checkpoint' = NoCheckpoint
BY DEF Boot, MountFlash

LEMMA RolloverLines ==
  ASSUME CoreInv, NEW shift, NEW date, Rollover(shift, date)
  PROVE  \A i \in DOMAIN stats' :
           \/ i \in DOMAIN stats /\ stats'[i] = stats[i]
           \/ stats'[i] = [date |-> shift_rec_date, shift |-> current_shift, windows |-> totals]
  <1>1. /\ stats \in Seq(Entries) /\ shift_rec_date \in Dates \cup {NoDate}
        /\ current_shift \in Shifts \cup {"none"} /\ totals \in SUBSET Windows
    BY DEF CoreInv, TypeOK
  <1>2. WriteShiftStats(shift_rec_date, current_shift, totals)
    BY DEF Rollover
  <1> QED BY <1>1, <1>2, LinesAfter

(* The checkpoint after a write is the one from before, none, or the shift. *)
LEMMA CheckpointAfter ==
  ASSUME NEW windows, NEW ok, WriteCheckpoint(windows, ok)
  PROVE  \/ checkpoint' = checkpoint
         \/ checkpoint' = NoCheckpoint
         \/ checkpoint' = [date |-> shift_rec_date, shift |-> current_shift,
                           windows |-> windows, ok |-> ok, counter |-> shift_counter]
BY DEF WriteCheckpoint

(* The deferred or the new shift is a record of its own.                    *)
LEMMA PendingIsSome ==
  \A s, d : s \in Shifts => [shift |-> s, date |-> d] # NoPending
  <1> SUFFICES ASSUME NEW s \in Shifts, NEW d, [shift |-> s, date |-> d] = NoPending PROVE FALSE
    OBVIOUS
  <1>1. [shift |-> s, date |-> d].shift = s /\ NoPending.shift = "none"
    BY DEF NoPending
  <1> QED BY <1>1 DEF Shifts

-----------------------------------------------------------------------------
(* Only opened windows are booked.                                          *)

LEMMA OpenedStep ==
  ASSUME CoreInv, OpenedInv, [Next]_vars
  PROVE  OpenedInv'
  <1>1. Opened \subseteq Opened' /\ Len(home) \in Nat /\ (window = "WINDOW" => Len(home) \in Opened)
    BY HomeStep, HomeType
  <1>2. CASE Boot
    <2>1. \A i \in DOMAIN stats' : stats'[i].windows \subseteq Opened
      BY <1>2, BootLines DEF OpenedInv
    <2> QED BY <1>1, <1>2, <2>1, BootCheckpoint DEF Boot, Resumes, Found, OpenedInv
  <1>3. CASE Crash
    BY <1>1, <1>3 DEF Crash, OpenedInv, flash, history
  <1>4. CASE OpenByScan
    <2>1. Len(home') \in Opened'
      BY <1>4, OpenStep DEF OpenByScan
    <2>2. \A p \in labels' : p.window \in Opened'
      BY <1>1, <1>4, <2>1 DEF OpenByScan, PrintLabel, OpenedInv
    <2> QED BY <1>1, <1>4, <2>2 DEF OpenByScan, OpenedInv, flash
  <1>5. CASE OpenByTimer
    BY <1>1, <1>5 DEF OpenByTimer, OpenedInv, flash, books
  <1>6. CASE PrintInWindow
    <2>1. \A p \in labels' : p.window \in Opened'
      BY <1>1, <1>6 DEF PrintInWindow, PrintLabel, OpenedInv
    <2> QED BY <1>1, <1>6, <2>1 DEF PrintInWindow, OpenedInv, flash
  <1>7. CASE CloseWindow
    <2>1. totals' \subseteq Opened /\ folded' \subseteq Opened
      BY <1>1, <1>7 DEF CloseWindow, OpenedInv
    <2>2. checkpoint' # NoCheckpoint => checkpoint'.windows \subseteq Opened
      BY <1>7, <2>1, CheckpointAfter DEF CloseWindow, OpenedInv
    <2> QED BY <1>1, <1>7, <2>1, <2>2 DEF CloseWindow, OpenedInv
  <1>8. CASE ApplyRollover
    <2>1. \A i \in DOMAIN stats' : stats'[i].windows \subseteq Opened
      BY <1>8, RolloverLines DEF ApplyRollover, OpenedInv
    <2> QED BY <1>1, <1>8, <2>1 DEF ApplyRollover, Rollover, OpenedInv, history
  <1>9. CASE PersistRollover
    <2>1. checkpoint' # NoCheckpoint => checkpoint'.windows \subseteq Opened
      BY <1>9, CheckpointAfter DEF PersistRollover, OpenedInv
    <2> QED BY <1>1, <1>9, <2>1 DEF PersistRollover, OpenedInv, history, books
  <1>10. CASE ShiftCheck
    <2>1. UNCHANGED <<checkpoint, folded, labels>>
      BY <1>10 DEF ShiftCheck, CheckUnreadable, CheckDefers, CheckRollsOver, CheckSameShift, CheckDone
    <2>2. CASE CheckRollsOver
      <3>1. \A i \in DOMAIN stats' : stats'[i].windows \subseteq Opened
        BY <2>2, RolloverLines DEF CheckRollsOver, OpenedInv
      <3> QED BY <1>1, <2>1, <2>2, <3>1 DEF CheckRollsOver, Rollover, OpenedInv
    <2>3. CASE CheckUnreadable \/ CheckDefers \/ CheckSameShift
      BY <1>1, <2>1, <2>3 DEF CheckUnreadable, CheckDefers, CheckSameShift, OpenedInv, books
    <2> QED BY <1>10, <2>2, <2>3 DEF ShiftCheck
  <1>11. CASE SetClock \/ ResetData \/ ClockAdvance \/ RtcComesOrGoes \/ PartitionChanges
    BY <1>1, <1>11 DEF SetClock, ResetData, ClockAdvance, RtcComesOrGoes, PartitionChanges,
                       OpenedInv, books, flash, history
  <1>12. CASE UNCHANGED vars
    BY <1>1, <1>12 DEF vars, OpenedInv, books, flash, history
  <1> QED BY <1>2, <1>3, <1>4, <1>5, <1>6, <1>7, <1>8, <1>9, <1>10, <1>11, <1>12 DEF Next, Close

THEOREM OpenedInvariant == Spec => []OpenedInv
  <1>1. Init => OpenedInv
    BY DEF Init, OpenedInv
  <1>2. CoreInv /\ OpenedInv /\ [Next]_vars => OpenedInv'
    BY OpenedStep
  <1> QED BY <1>1, <1>2, CoreInvariant, PTL DEF Spec

-----------------------------------------------------------------------------
(* Day and night shift are never added up.                                  *)

LEMMA LetterStep ==
  ASSUME ~RtcMayFail, MaxClockSets = 0, CoreInv, OpenedInv, LetterInv, [Next]_vars
  PROVE  LetterInv'
  <1>1. /\ rtc_ok' /\ ~SetClock
        /\ OpenByScan \/ OpenByTimer \/ home' = home
        /\ \A w \in Opened : home'[w] = home[w]
    BY HardwareStep, HomeStep, ConstantTypes DEF LetterInv, SetClock, CoreInv, TypeOK
  <1>2. /\ ShiftOf(minute) \in Shifts /\ ShiftBegun(seen).shift = ShiftOf(seen)
        /\ \A s \in Shifts : s # "none"
    BY CalendarTypes DEF CoreInv, TypeOK, Shifts
  <1>3. CASE Boot
    <2>1. \A i \in DOMAIN stats' : \A w \in stats'[i].windows : home[w].shift = stats'[i].shift
      BY <1>3, BootLines DEF LetterInv
    <2>2. /\ rtc_ok /\ UNCHANGED home /\ window' = "WAIT"
          /\ current_shift' = ShiftOf(minute) /\ seen' = minute
          /\ checkpoint' = checkpoint \/ checkpoint' = NoCheckpoint
      BY <1>3, BootCheckpoint DEF Boot, LetterInv, PendingInv, CoreInv
    <2>3. \A w \in totals' : home[w].shift = current_shift'
      BY <1>3, <2>2 DEF Boot, Resumes, Found, LetterInv
    <2> QED BY <1>1, <1>2, <2>1, <2>2, <2>3 DEF LetterInv
  <1>4. CASE Crash
    BY <1>1, <1>4 DEF Crash, LetterInv, flash, history
  <1>5. CASE OpenByScan \/ OpenByTimer
    <2>1. /\ home'[Len(home')] = ShiftBegun(seen) /\ pc = "run" /\ window' = "WINDOW"
          /\ UNCHANGED <<current_shift, totals, pc, checkpoint, stats>>
          /\ window # "WINDOW" /\ (window = "CYCLE" => ~check_due_after_close)
      BY <1>5, OpenStep DEF OpenByScan, OpenByTimer, OpenWindow, books, flash
    <2>2. home'[Len(home')].shift = current_shift
      BY <1>2, <2>1 DEF LetterInv
    <2>3. \A i \in DOMAIN stats' : \A w \in stats'[i].windows : home'[w].shift = stats'[i].shift
      BY <1>1, <2>1 DEF OpenedInv, LetterInv
    <2>4. /\ \A w \in totals' : home'[w].shift = current_shift'
          /\ checkpoint' # NoCheckpoint =>
               \A w \in checkpoint'.windows : home'[w].shift = checkpoint'.shift
      BY <1>1, <2>1 DEF OpenedInv, LetterInv
    <2> QED BY <1>1, <2>1, <2>2, <2>3, <2>4 DEF LetterInv
  <1>6. CASE PrintInWindow
    BY <1>1, <1>6 DEF PrintInWindow, LetterInv, flash
  <1>7. CASE CloseWindow
    <2>1. \A w \in totals' : home[w].shift = current_shift
      BY <1>7 DEF CloseWindow, LetterInv
    <2>2. /\ UNCHANGED <<current_shift, home, stats, seen>> /\ pc # "off"
          /\ pc' = "append" \/ (window' = "CYCLE" /\ check_due_after_close')
      BY <1>7 DEF CloseWindow, EnterCycle
    <2>3. checkpoint' # NoCheckpoint =>
            \A w \in checkpoint'.windows : home[w].shift = checkpoint'.shift
      BY <1>7, <2>1, CheckpointAfter DEF CloseWindow, LetterInv
    <2> QED BY <1>1, <2>1, <2>2, <2>3 DEF LetterInv
  <1>8. CASE ApplyRollover
    <2>1. \A i \in DOMAIN stats' : \A w \in stats'[i].windows : home[w].shift = stats'[i].shift
      BY <1>8, RolloverLines DEF ApplyRollover, LetterInv
    <2>2. pending.shift \in Shifts
      BY <1>8 DEF ApplyRollover, CoreInv, TypeOK, PendingInv
    <2> QED BY <1>1, <1>8, <2>1, <2>2 DEF ApplyRollover, Rollover, LetterInv, history
  <1>9. CASE PersistRollover
    <2>1. checkpoint' # NoCheckpoint =>
            \A w \in checkpoint'.windows : home[w].shift = checkpoint'.shift
      BY <1>9, CheckpointAfter DEF PersistRollover, LetterInv
    <2> QED BY <1>1, <1>9, <2>1 DEF PersistRollover, EnterCycle, LetterInv, history, books
  <1>10. CASE ShiftCheck
    <2>1. /\ pc = "run" /\ pc' = "run" /\ seen' = minute /\ rtc_ok
          /\ UNCHANGED <<checkpoint, home, window>>
      BY <1>10 DEF ShiftCheck, CheckUnreadable, CheckDefers, CheckRollsOver, CheckSameShift,
                   CheckDone, LetterInv
    <2>2. CASE CheckRollsOver
      <3>1. \A i \in DOMAIN stats' : \A w \in stats'[i].windows : home[w].shift = stats'[i].shift
        <4>1. \A i \in DOMAIN stats' :
                \/ i \in DOMAIN stats /\ stats'[i] = stats[i]
                \/ stats'[i] = [date |-> shift_rec_date, shift |-> current_shift, windows |-> totals]
          BY <2>2, RolloverLines DEF CheckRollsOver
        <4> QED BY <2>1, <4>1 DEF LetterInv
      <3> QED BY <1>1, <1>2, <2>1, <2>2, <3>1 DEF CheckRollsOver, Rollover, LetterInv
    <2>3. CASE CheckDefers
      BY <1>1, <2>1, <2>3 DEF CheckDefers, LetterInv, books
    <2>4. CASE CheckSameShift
      <3>1. current_shift' = current_shift /\ current_shift' = ShiftOf(minute)
        BY <1>2, <2>1, <2>4 DEF CheckSameShift, ShiftChanged, LetterInv
      <3> QED BY <1>1, <2>1, <2>4, <3>1 DEF CheckSameShift, LetterInv
    <2> QED BY <1>10, <2>1, <2>2, <2>3, <2>4 DEF ShiftCheck, CheckUnreadable
  <1>11. CASE ResetData
    BY <1>1, <1>11 DEF ResetData, LetterInv, books, due
  <1>12. CASE ClockAdvance \/ RtcComesOrGoes \/ PartitionChanges
    <2>1. UNCHANGED <<books, flash, history, window, pc, check_due_after_close>>
      BY <1>12 DEF ClockAdvance, RtcComesOrGoes, PartitionChanges, due
    <2> QED BY <1>1, <2>1 DEF LetterInv, books, flash, history
  <1>13. CASE UNCHANGED vars
    BY <1>1, <1>13 DEF vars, LetterInv, books, flash, history, due
  <1> QED BY <1>1, <1>3, <1>4, <1>5, <1>6, <1>7, <1>8, <1>9, <1>10, <1>11, <1>12, <1>13 DEF Next, Close

LEMMA LetterInvariant ==
  ASSUME ~RtcMayFail, MaxClockSets = 0
  PROVE  Spec => [](CoreInv /\ OpenedInv /\ LetterInv)
  <1>1. Init => LetterInv
    BY DEF Init, LetterInv
  <1>2. CoreInv /\ OpenedInv /\ LetterInv /\ [Next]_vars => LetterInv'
    BY LetterStep
  <1> QED BY <1>1, <1>2, CoreInvariant, OpenedInvariant, PTL DEF Spec

(* With a readable RTC that nobody sets, windows of a day shift and of a     *)
(* night shift never share the totals or a line, whatever the power does.    *)
THEOREM DayAndNightApart ==
  ASSUME ~RtcMayFail, MaxClockSets = 0
  PROVE  Spec => []NoMixOfDayAndNight
  <1>1. CoreInv /\ LetterInv => NoMixOfDayAndNight
    <2> SUFFICES ASSUME CoreInv, LetterInv PROVE NoMixOfDayAndNight
      OBVIOUS
    <2>1. \A v, w \in totals : home[v].shift = home[w].shift
      BY DEF CoreInv, PendingInv, LetterInv
    <2>2. \A i \in DOMAIN stats : \A v, w \in stats[i].windows : home[v].shift = home[w].shift
      BY DEF LetterInv
    <2> QED BY <2>1, <2>2 DEF NoMixOfDayAndNight
  <1> QED BY <1>1, LetterInvariant, PTL

-----------------------------------------------------------------------------
(* The order of shifts *)

(* Shift A begins after midnight's minute and before shift B, as in the      *)
(* defaults of 8:00 and 20:00; both are minutes of a day.                    *)
UsualShifts == ShiftAMin < ShiftBMin /\ ShiftBMin < MinutesPerDay

LEMMA DivisionUnique ==
  ASSUME NEW D \in Nat, NEW q1 \in Nat, NEW q2 \in Nat,
         NEW r1 \in 0 .. D - 1, NEW r2 \in 0 .. D - 1, D * q1 + r1 = D * q2 + r2
  PROVE  q1 = q2 /\ r1 = r2
  <1>1. D * q1 \in Nat /\ D * q2 \in Nat /\ D * (q1 + 1) = D * q1 + D /\ D * (q2 + 1) = D * q2 + D
    OBVIOUS
  <1>2. ASSUME q1 < q2 PROVE FALSE
    <2>1. D * (q1 + 1) <= D * q2
      BY <1>2, TimesMonotone
    <2> QED BY <1>1, <2>1
  <1>3. ASSUME q2 < q1 PROVE FALSE
    <2>1. D * (q2 + 1) <= D * q1
      BY <1>3, TimesMonotone
    <2> QED BY <1>1, <2>1
  <1>4. q1 = q2
    BY <1>2, <1>3
  <1> QED BY <1>1, <1>4

LEMMA NextMinute ==
  ASSUME NEW m \in Nat
  PROVE  \/ DateOf(m + 1) = DateOf(m) /\ (m + 1) % MinutesPerDay = (m % MinutesPerDay) + 1
         \/ /\ DateOf(m + 1) = DateOf(m) + 1 /\ (m + 1) % MinutesPerDay = 0
            /\ (m % MinutesPerDay) = MinutesPerDay - 1
  <1> DEFINE D == MinutesPerDay
             q == DateOf(m)
             r == m % D
             q1 == DateOf(m + 1)
             r1 == (m + 1) % D
  <1>1. /\ D \in Nat /\ D > 0 /\ q \in Nat /\ q1 \in Nat
        /\ r \in 0 .. D - 1 /\ r1 \in 0 .. D - 1
        /\ m = D * q + r /\ m + 1 = D * q1 + r1
    <2>1. q \in Nat /\ r \in 0 .. D - 1 /\ m = D * q + r
      BY DayAndMinute
    <2>2. m + 1 \in Nat
      OBVIOUS
    <2>3. q1 \in Nat /\ r1 \in 0 .. D - 1 /\ m + 1 = D * q1 + r1
      BY <2>2, DayAndMinute
    <2>4. D \in Nat /\ D > 0
      BY ConstantTypes
    <2> QED BY <2>1, <2>3, <2>4
  <1> HIDE DEF D, q, r, q1, r1
  <1>2. CASE r + 1 < D
    <2>1. r + 1 \in 0 .. D - 1 /\ D * q + (r + 1) = D * q1 + r1
      BY <1>1, <1>2
    <2>2. q1 = q /\ r1 = r + 1
      BY <1>1, <2>1, DivisionUnique
    <2> QED BY <2>2 DEF D, q, r, q1, r1
  <1>3. CASE r + 1 = D
    <2>1. D * (q + 1) = D * q + D /\ 0 \in 0 .. D - 1 /\ q + 1 \in Nat
      BY <1>1
    <2>2. D * (q + 1) + 0 = D * q1 + r1
      BY <1>1, <1>3, <2>1
    <2>3. q1 = q + 1 /\ r1 = 0
      BY <1>1, <2>1, <2>2, DivisionUnique
    <2>4. r = D - 1
      BY <1>1, <1>3
    <2> QED BY <2>3, <2>4 DEF D, q, r, q1, r1
  <1> QED BY <1>1, <1>2, <1>3

(* A minute later the shift is the same one, or has another letter.         *)
LEMMA NextShift ==
  ASSUME UsualShifts, NEW m \in Nat, ShiftOf(m + 1) = ShiftOf(m)
  PROVE  ShiftBegun(m + 1) = ShiftBegun(m)
  <1>1. /\ DateOf(m) \in Nat /\ m % MinutesPerDay \in 0 .. MinutesPerDay - 1
        /\ ShiftAMin \in Nat /\ ShiftBMin \in Nat /\ MinutesPerDay \in Nat
        /\ m + 1 \in Nat
    BY DayAndMinute, ConstantTypes
  <1>2. CASE DateOf(m + 1) = DateOf(m) /\ (m + 1) % MinutesPerDay = (m % MinutesPerDay) + 1
    BY <1>1, <1>2 DEF ShiftBegun, ShiftOf, UsualShifts
  <1>3. CASE /\ DateOf(m + 1) = DateOf(m) + 1 /\ (m + 1) % MinutesPerDay = 0
             /\ (m % MinutesPerDay) = MinutesPerDay - 1
    BY <1>1, <1>3 DEF ShiftBegun, ShiftOf, UsualShifts
  <1> QED BY <1>2, <1>3, NextMinute

(* Shifts do not go back.                                                   *)
LEMMA RankMonotone ==
  ASSUME UsualShifts, NEW m \in Nat, NEW n \in Nat, m <= n
  PROVE  Rank(ShiftBegun(m)) <= Rank(ShiftBegun(n))
  <1>1. /\ DateOf(m) \in Nat /\ m % MinutesPerDay \in 0 .. MinutesPerDay - 1
        /\ DateOf(n) \in Nat /\ n % MinutesPerDay \in 0 .. MinutesPerDay - 1
        /\ m = MinutesPerDay * DateOf(m) + (m % MinutesPerDay)
        /\ n = MinutesPerDay * DateOf(n) + (n % MinutesPerDay)
        /\ ShiftAMin \in Nat /\ ShiftBMin \in Nat /\ MinutesPerDay \in Nat
        /\ DateOf(m) <= DateOf(n)
    BY DayAndMinute, DatesInOrder, ConstantTypes
  <1>2. CASE DateOf(m) = DateOf(n)
    <2>1. MinutesPerDay * DateOf(m) \in Nat
      BY <1>1
    <2>2. m % MinutesPerDay <= n % MinutesPerDay
      BY <1>1, <1>2, <2>1
    <2> QED BY <1>1, <1>2, <2>2 DEF Rank, ShiftBegun, ShiftOf, UsualShifts
  <1>3. CASE DateOf(m) < DateOf(n)
    <2>1. Rank(ShiftBegun(m)) <= 2 * DateOf(m) + 1
      BY <1>1 DEF Rank, ShiftBegun, ShiftOf
    <2>2. 2 * DateOf(n) - 1 <= Rank(ShiftBegun(n))
      BY <1>1 DEF Rank, ShiftBegun, ShiftOf, UsualShifts
    <2>3. Rank(ShiftBegun(m)) \in Int /\ Rank(ShiftBegun(n)) \in Int
      BY <1>1 DEF Rank, ShiftBegun, ShiftOf
    <2> QED BY <1>1, <1>3, <2>1, <2>2, <2>3
  <1> QED BY <1>1, <1>2, <1>3

(* The rank tells shifts apart.                                             *)
LEMMA RankIsShift ==
  /\ \A b \in ShiftsBegun : Rank(b) \in Int
  /\ \A a, b \in ShiftsBegun : Rank(a) = Rank(b) => a = b
  <1>1. \A b \in ShiftsBegun : b.date \in Int /\ b.shift \in {"A", "B"}
    BY NoDateIsNone DEF ShiftsBegun, Shifts
  <1>2. \A b \in ShiftsBegun : Rank(b) \in Int
    BY <1>1 DEF Rank
  <1>3. ASSUME NEW a \in ShiftsBegun, NEW b \in ShiftsBegun, Rank(a) = Rank(b) PROVE a = b
    <2>1. /\ a = [date |-> a.date, shift |-> a.shift] /\ b = [date |-> b.date, shift |-> b.shift]
      BY DEF ShiftsBegun
    <2>2. a.date = b.date /\ a.shift = b.shift
      BY <1>1, <1>3 DEF Rank
    <2> QED BY <2>1, <2>2
  <1> QED BY <1>2, <1>3

-----------------------------------------------------------------------------
(* One shift per record                                                     *)

(* PageInv while the power has not failed, in parts. *)
ChecksKeepUp ==
  /\ pc = "off" => minute = seen /\ checkpoint = NoCheckpoint /\ ~check_due
  /\ pc # "off" => minute = IF check_due THEN seen + 1 ELSE seen
HandIsShiftSeen == current_shift = ShiftOf(seen) /\ \A w \in InHand : home[w] = ShiftBegun(seen)
JustRolledOver == check_due_after_close /\ totals = {} /\ window = "CYCLE"
HandIsOneShift ==
  /\ pc = "run" /\ pending = NoPending => HandIsShiftSeen \/ JustRolledOver
  /\ pc \in {"run", "append"} /\ pending # NoPending => SameShift(InHand)
  /\ pc = "persist" => totals = {}
LinesAreOneShift == \A i \in DOMAIN stats : SameShift(stats[i].windows)

LEMMA PageParts == PageInv <=> (crashes = 0 => ChecksKeepUp /\ HandIsOneShift /\ LinesAreOneShift)
BY DEF PageInv, ChecksKeepUp, HandIsOneShift, HandIsShiftSeen, JustRolledOver, LinesAreOneShift

LEMMA PagePartsNext ==
  PageInv' <=> (crashes' = 0 => ChecksKeepUp' /\ HandIsOneShift' /\ LinesAreOneShift')
BY DEF PageInv, ChecksKeepUp, HandIsOneShift, HandIsShiftSeen, JustRolledOver, LinesAreOneShift

(* The minute is the one checked last, or the next.                         *)
LEMMA ChecksKeepUpStep ==
  ASSUME ~RtcMayFail, MaxClockSets = 0, CoreInv, LetterInv, ChecksKeepUp, crashes = 0,
         [Next]_vars, ~Crash
  PROVE  ChecksKeepUp'
  <1>1. ~SetClock /\ minute \in Int /\ seen \in Int /\ rtc_ok
    BY ConstantTypes, CalendarTypes DEF SetClock, CoreInv, TypeOK, LetterInv
  <1>2. CASE Boot
    BY <1>1, <1>2 DEF Boot, ChecksKeepUp, clock, due
  <1>3. CASE OpenByScan \/ OpenByTimer \/ PrintInWindow
    BY <1>3 DEF OpenByScan, OpenByTimer, PrintInWindow, ChecksKeepUp, clock, due
  <1>4. CASE Close
    BY <1>4 DEF Close, CloseWindow, ApplyRollover, PersistRollover, ChecksKeepUp, clock, due, history
  <1>5. CASE ShiftCheck
    <2>1. CheckDone
      BY <1>5 DEF ShiftCheck, CheckUnreadable, CheckDefers, CheckRollsOver, CheckSameShift
    <2> QED BY <1>1, <2>1 DEF CheckDone, ChecksKeepUp, clock
  <1>6. CASE ClockAdvance
    <2>1. /\ pc # "off" /\ ~check_due /\ minute' = minute + 1 /\ check_due' = (pc # "off")
          /\ UNCHANGED <<pc, seen>>
      BY <1>6 DEF ClockAdvance, history
    <2> QED BY <2>1 DEF ChecksKeepUp
  <1>7. CASE ResetData \/ RtcComesOrGoes \/ PartitionChanges
    BY <1>7 DEF ResetData, RtcComesOrGoes, PartitionChanges, ChecksKeepUp, clock, due, history, flash
  <1>8. CASE UNCHANGED vars
    BY <1>8 DEF vars, ChecksKeepUp, clock, due, history, flash
  <1> QED BY <1>1, <1>2, <1>3, <1>4, <1>5, <1>6, <1>7, <1>8 DEF Next

(* While the checks keep up, each line is of one shift, and what is in hand. *)
LEMMA HandStep ==
  ASSUME ~RtcMayFail, MaxClockSets = 0, UsualShifts, CoreInv, OpenedInv, LetterInv, ChecksKeepUp,
         HandIsOneShift, LinesAreOneShift, crashes = 0, [Next]_vars, ~Crash
  PROVE  HandIsOneShift' /\ LinesAreOneShift'
  <1>1. /\ ~SetClock /\ rtc_ok
        /\ \A w \in Opened : home'[w] = home[w]
        /\ totals \subseteq Opened /\ \A i \in DOMAIN stats : stats[i].windows \subseteq Opened
    BY ConstantTypes, HomeStep DEF SetClock, CoreInv, TypeOK, LetterInv, OpenedInv
  <1>2. CASE Boot
    <2>1. /\ checkpoint = NoCheckpoint /\ totals' = {} /\ window' = "WAIT" /\ pending' = NoPending
          /\ pc' = "run" /\ current_shift' = ShiftOf(minute) /\ seen' = minute
          /\ UNCHANGED home /\ (stats' = stats \/ stats' = << >>)
      BY <1>1, <1>2 DEF Boot, Resumes, Found, ChecksKeepUp, CoreInv, PendingInv
    <2> QED BY <2>1, NoLines DEF HandIsOneShift, HandIsShiftSeen, InHand, LinesAreOneShift, SameShift
  <1>3. CASE OpenByScan \/ OpenByTimer
    <2>1. /\ pc = "run" /\ window # "WINDOW" /\ (window = "CYCLE" => ~check_due_after_close)
          /\ window' = "WINDOW" /\ home'[Len(home')] = ShiftBegun(seen)
          /\ UNCHANGED <<pc, pending, current_shift, totals, seen, stats>>
      BY <1>3, OpenStep DEF OpenByScan, OpenByTimer, OpenWindow, books, flash
    <2>2. pending = NoPending /\ HandIsShiftSeen
      BY <2>1 DEF CoreInv, PendingInv, HandIsOneShift, JustRolledOver
    <2>3. HandIsShiftSeen'
      BY <1>1, <2>1, <2>2 DEF HandIsShiftSeen, InHand
    <2>4. LinesAreOneShift'
      BY <1>1, <2>1 DEF LinesAreOneShift, SameShift
    <2> QED BY <2>1, <2>2, <2>3, <2>4 DEF HandIsOneShift
  <1>4. CASE PrintInWindow
    BY <1>4 DEF PrintInWindow, HandIsOneShift, HandIsShiftSeen, JustRolledOver, LinesAreOneShift,
                InHand, SameShift, flash, due
  <1>5. CASE CloseWindow
    <2>1. /\ pc = "run" /\ window = "WINDOW" /\ totals' = InHand
          /\ UNCHANGED <<current_shift, seen, home, stats, pending>>
      BY <1>5 DEF CloseWindow, InHand
    <2>2. CASE pending # NoPending
      <3>1. pc' = "append" /\ window' = "WINDOW" /\ SameShift(InHand) /\ InHand' = InHand
        BY <1>5, <2>1, <2>2 DEF CloseWindow, HandIsOneShift, InHand
      <3> QED BY <2>1, <2>2, <3>1 DEF HandIsOneShift, LinesAreOneShift, SameShift
    <2>3. CASE pending = NoPending
      <3>1. pc' = "run" /\ window' = "CYCLE" /\ HandIsShiftSeen /\ InHand' = InHand
        BY <1>5, <2>1, <2>3 DEF CloseWindow, EnterCycle, HandIsOneShift, JustRolledOver, InHand
      <3> QED BY <2>1, <2>3, <3>1
              DEF HandIsOneShift, HandIsShiftSeen, LinesAreOneShift, SameShift
    <2> QED BY <2>2, <2>3
  <1>6. CASE ApplyRollover
    <2>1. SameShift(totals)
      BY <1>6 DEF ApplyRollover, HandIsOneShift, CoreInv, PendingInv, InHand, SameShift
    <2>2. Rollover(pending.shift, pending.date) /\ pc' = "persist" /\ home' = home
      BY <1>6 DEF ApplyRollover, history
    <2>3. LinesAreOneShift'
      BY <2>1, <2>2, RolloverLines DEF LinesAreOneShift, SameShift
    <2> QED BY <2>2, <2>3 DEF HandIsOneShift, Rollover
  <1>7. CASE PersistRollover
    <2>1. /\ totals' = {} /\ pending' = NoPending /\ pc' = "run" /\ window' = "CYCLE"
          /\ check_due_after_close' /\ UNCHANGED <<stats, home>>
      BY <1>7 DEF PersistRollover, EnterCycle, HandIsOneShift, books, history
    <2> QED BY <2>1 DEF HandIsOneShift, JustRolledOver, LinesAreOneShift, SameShift
  <1>8. CASE ShiftCheck
    <2>1. pc = "run" /\ pc' = "run" /\ seen' = minute /\ UNCHANGED <<home, window>>
      BY <1>1, <1>8 DEF ShiftCheck, CheckUnreadable, CheckDefers, CheckRollsOver, CheckSameShift,
                        CheckDone
    <2>2. CASE CheckDefers
      <3>1. /\ window = "WINDOW" /\ UNCHANGED <<totals, stats>> /\ InHand' = InHand
            /\ pending' = [shift |-> ShiftOf(minute), date |-> DateOf(minute)]
        BY <2>1, <2>2 DEF CheckDefers, books, InHand
      <3>2. pending' # NoPending
        BY <3>1, PendingIsSome, CalendarTypes DEF CoreInv, TypeOK
      <3>3. SameShift(InHand)
        BY <2>1, <3>1 DEF HandIsOneShift, HandIsShiftSeen, JustRolledOver, SameShift
      <3> QED BY <2>1, <3>1, <3>2, <3>3 DEF HandIsOneShift, LinesAreOneShift, SameShift
    <2>3. CASE CheckRollsOver
      <3>1. SameShift(totals)
        BY <2>1, <2>3 DEF CheckRollsOver, HandIsOneShift, HandIsShiftSeen, JustRolledOver, InHand,
                          SameShift, CoreInv, PendingInv
      <3>2. \A i \in DOMAIN stats' :
              \/ i \in DOMAIN stats /\ stats'[i] = stats[i]
              \/ stats'[i] = [date |-> shift_rec_date, shift |-> current_shift, windows |-> totals]
        BY <2>3, RolloverLines DEF CheckRollsOver
      <3>3. LinesAreOneShift'
        BY <2>1, <3>1, <3>2 DEF LinesAreOneShift, SameShift
      <3>4. HandIsShiftSeen' /\ pending' = NoPending
        BY <2>1, <2>3 DEF CheckRollsOver, Rollover, HandIsShiftSeen, InHand, CoreInv, PendingInv
      <3> QED BY <2>1, <3>3, <3>4 DEF HandIsOneShift
    <2>4. CASE CheckSameShift
      <3>1. /\ current_shift \in Shifts /\ \A s \in Shifts : s # "none"
            /\ seen \in Nat /\ minute \in {seen, seen + 1}
        BY <2>1, CalendarTypes DEF LetterInv, ChecksKeepUp, CoreInv, TypeOK, Shifts
      <3>2. /\ current_shift = ShiftOf(minute) /\ current_shift' = ShiftOf(minute)
            /\ UNCHANGED <<totals, pending, stats>> /\ InHand' = InHand
        BY <2>1, <2>4, <3>1 DEF CheckSameShift, ShiftChanged, InHand
      <3>3. CASE pending # NoPending
        BY <2>1, <3>2, <3>3 DEF HandIsOneShift, LinesAreOneShift, SameShift
      <3>4. CASE pending = NoPending /\ HandIsShiftSeen
        <4>1. ShiftBegun(minute) = ShiftBegun(seen)
          BY <3>1, <3>2, <3>4, NextShift DEF HandIsShiftSeen
        <4> QED BY <2>1, <3>2, <3>4, <4>1
                DEF HandIsOneShift, HandIsShiftSeen, LinesAreOneShift, SameShift
      <3>5. CASE pending = NoPending /\ JustRolledOver
        BY <2>1, <3>2, <3>5
        DEF HandIsOneShift, HandIsShiftSeen, JustRolledOver, InHand, LinesAreOneShift, SameShift
      <3> QED BY <2>1, <3>3, <3>4, <3>5 DEF HandIsOneShift
    <2> QED BY <1>1, <1>8, <2>2, <2>3, <2>4 DEF ShiftCheck, CheckUnreadable
  <1>9. CASE ResetData
    BY <1>9 DEF ResetData, HandIsOneShift, HandIsShiftSeen, JustRolledOver, LinesAreOneShift,
                InHand, SameShift, books, due
  <1>10. CASE ClockAdvance \/ RtcComesOrGoes \/ PartitionChanges
    BY <1>10 DEF ClockAdvance, RtcComesOrGoes, PartitionChanges, HandIsOneShift, HandIsShiftSeen,
                 JustRolledOver, LinesAreOneShift, InHand, SameShift, books, flash, history, due
  <1>11. CASE UNCHANGED vars
    BY <1>11 DEF vars, HandIsOneShift, HandIsShiftSeen, JustRolledOver, LinesAreOneShift, InHand,
                 SameShift, books, flash, history, due
  <1> QED BY <1>1, <1>2, <1>3, <1>4, <1>5, <1>6, <1>7, <1>8, <1>9, <1>10, <1>11 DEF Next, Close

LEMMA PageStep ==
  ASSUME ~RtcMayFail, MaxClockSets = 0, UsualShifts, CoreInv, OpenedInv, LetterInv, PageInv,
         [Next]_vars
  PROVE  PageInv'
  <1> SUFFICES ASSUME crashes' = 0 PROVE ChecksKeepUp' /\ HandIsOneShift' /\ LinesAreOneShift'
    BY PagePartsNext
  <1>1. crashes = 0 /\ ~Crash
    <2>1. crashes \in Nat
      BY TypeParts, ConstantTypes DEF CoreInv, ClockType
    <2>2. Crash => crashes' = crashes + 1
      BY DEF Crash
    <2>3. crashes' = crashes \/ crashes' = crashes + 1
      BY HardwareStep
    <2> QED BY <2>1, <2>2, <2>3
  <1>2. ChecksKeepUp /\ HandIsOneShift /\ LinesAreOneShift
    BY <1>1, PageParts
  <1> QED BY <1>1, <1>2, ChecksKeepUpStep, HandStep

(* With a readable RTC that nobody sets and shifts as usual, until the power *)
(* fails the totals and every line hold windows of one shift: no boundary is *)
(* missed, and no two days are added up.                                     *)
THEOREM OneShiftEach ==
  ASSUME ~RtcMayFail, MaxClockSets = 0, UsualShifts
  PROVE  Spec => []OneShiftPerRecord
  <1>1. Init => PageInv
    BY DEF Init, PageInv, SameShift
  <1>2. CoreInv /\ OpenedInv /\ LetterInv /\ PageInv /\ [Next]_vars => PageInv'
    BY PageStep
  <1>3. CoreInv /\ PageInv => OneShiftPerRecord
    <2> SUFFICES ASSUME CoreInv, PageInv, crashes = 0
                 PROVE  SameShift(totals) /\ \A i \in DOMAIN stats : SameShift(stats[i].windows)
      BY DEF OneShiftPerRecord
    <2>1. HandIsOneShift /\ LinesAreOneShift
      BY PageParts
    <2>2. SameShift(totals)
      <3>1. pc = "off" \/ pc = "persist" => totals = {}
        BY <2>1 DEF CoreInv, PendingInv, HandIsOneShift
      <3>2. pc \in {"off", "run", "append", "persist"}
        BY DEF CoreInv, TypeOK
      <3>3. totals \subseteq InHand
        BY DEF InHand
      <3>4. CASE totals = {}
        BY <3>4 DEF SameShift
      <3>5. CASE totals # {} /\ pending # NoPending
        BY <2>1, <3>1, <3>2, <3>3, <3>5 DEF HandIsOneShift, SameShift
      <3>6. CASE totals # {} /\ pending = NoPending
        <4>1. pc = "run"
          BY <3>1, <3>2, <3>6 DEF CoreInv, PendingInv
        <4>2. HandIsShiftSeen
          BY <2>1, <3>6, <4>1 DEF HandIsOneShift, JustRolledOver
        <4> QED BY <3>3, <4>2 DEF HandIsShiftSeen, SameShift
      <3> QED BY <3>4, <3>5, <3>6
    <2> QED BY <2>1, <2>2 DEF LinesAreOneShift
  <1> QED BY <1>1, <1>2, <1>3, LetterInvariant, PTL DEF Spec

-----------------------------------------------------------------------------
(* Serials                                                                  *)

(* The clock, and the minute last checked, do not go back.                  *)
LEMMA ClockOnward ==
  ASSUME ~RtcMayFail, MaxClockSets = 0, CoreInv, LetterInv, seen <= minute, [Next]_vars
  PROVE  /\ {minute, seen, minute', seen'} \subseteq Nat
         /\ minute <= minute' /\ seen <= seen' /\ seen' <= minute'
  <1>1. minute \in Nat /\ seen \in Nat /\ ~SetClock /\ rtc_ok
    BY CalendarTypes, ConstantTypes DEF CoreInv, TypeOK, SetClock, LetterInv
  <1>2. CASE ClockAdvance
    BY <1>1, <1>2 DEF ClockAdvance, history
  <1>3. CASE ShiftCheck
    <2>1. CheckDone
      BY <1>3 DEF ShiftCheck, CheckUnreadable, CheckDefers, CheckRollsOver, CheckSameShift
    <2> QED BY <1>1, <2>1 DEF CheckDone, clock
  <1>4. CASE Boot
    BY <1>1, <1>4 DEF Boot, clock
  <1>5. ~ClockAdvance /\ ~ShiftCheck /\ ~Boot => UNCHANGED <<minute, seen>>
    BY <1>1 DEF Next, Crash, OpenByScan, OpenByTimer, PrintInWindow, Close, CloseWindow, ApplyRollover,
                PersistRollover, ResetData, RtcComesOrGoes, PartitionChanges, vars, clock, history
  <1>6. CASE UNCHANGED <<minute, seen>>
    BY <1>1, <1>6
  <1> QED BY <1>2, <1>3, <1>4, <1>5, <1>6

LEMMA RanksOnward ==
  ASSUME ~RtcMayFail, MaxClockSets = 0, UsualShifts, CoreInv, LetterInv, seen <= minute, [Next]_vars
  PROVE  /\ Rank(ShiftBegun(seen)) \in Int /\ Rank(ShiftBegun(seen')) \in Int
         /\ Rank(ShiftBegun(minute)) \in Int /\ Rank(ShiftBegun(minute')) \in Int
         /\ Rank(ShiftBegun(seen)) <= Rank(ShiftBegun(seen'))
         /\ Rank(ShiftBegun(seen)) <= Rank(ShiftBegun(minute))
         /\ Rank(ShiftBegun(minute)) <= Rank(ShiftBegun(minute'))
  <1>1. /\ minute \in Nat /\ seen \in Nat /\ minute' \in Nat /\ seen' \in Nat
        /\ minute <= minute' /\ seen <= seen' /\ seen <= minute
    BY ClockOnward
  <1>2. minute \in Minutes /\ seen \in Minutes /\ minute' \in Minutes /\ seen' \in Minutes
    BY NextCore, TypeParts, TypePartsNext DEF CoreInv, ClockType
  <1>3. /\ ShiftBegun(seen) \in ShiftsBegun /\ ShiftBegun(seen') \in ShiftsBegun
        /\ ShiftBegun(minute) \in ShiftsBegun /\ ShiftBegun(minute') \in ShiftsBegun
    BY <1>2, CalendarTypes
  <1> QED BY <1>1, <1>3, RankMonotone, RankIsShift

LEMMA PendingStep ==
  ASSUME CoreInv, [Next]_vars
  PROVE  \/ pending' = pending \/ pending' = NoPending
         \/ CheckDefers
  BY DEF Next, Boot, Crash, OpenByScan, OpenByTimer, PrintInWindow, Close, CloseWindow,
         ApplyRollover, PersistRollover, ShiftCheck, CheckUnreadable, CheckRollsOver,
         CheckSameShift, SetClock, ResetData, ClockAdvance, RtcComesOrGoes, PartitionChanges, vars

LEMMA OrderStep ==
  ASSUME ~RtcMayFail, MaxClockSets = 0, UsualShifts, CoreInv, LetterInv, OrderInv, [Next]_vars
  PROVE  OrderInv'
  <1>1. seen <= minute /\ seen' <= minute'
    BY ClockOnward DEF OrderInv
  <1>2. /\ Rank(ShiftBegun(seen)) \in Int /\ Rank(ShiftBegun(seen')) \in Int
        /\ Rank(ShiftBegun(minute)) \in Int /\ Rank(ShiftBegun(minute')) \in Int
        /\ Rank(ShiftBegun(seen)) <= Rank(ShiftBegun(seen'))
        /\ Rank(ShiftBegun(seen)) <= Rank(ShiftBegun(minute))
        /\ Rank(ShiftBegun(minute)) <= Rank(ShiftBegun(minute'))
    BY <1>1, RanksOnward
  <1>3. \A w \in Opened : home[w] \in ShiftsBegun /\ Rank(home[w]) \in Int
    BY HomeType, RankIsShift
  <1>4. CASE OpenByScan \/ OpenByTimer
    <2>1. /\ Opened' = Opened \cup {Len(home')} /\ \A w \in Opened : home'[w] = home[w]
          /\ Len(home') = Len(home) + 1 /\ Len(home) \in Nat /\ Opened = 1 .. Len(home)
          /\ home'[Len(home')] = ShiftBegun(seen)
      BY <1>4, OpenStep, HomeType DEF OpenByScan, OpenByTimer, Opened
    <2>2. pending' = NoPending
      BY <1>4 DEF OpenByScan, OpenByTimer, CoreInv, PendingInv
    <2>3. \A w \in Opened' : Rank(home'[w]) <= Rank(ShiftBegun(seen'))
      BY <1>2, <1>3, <2>1 DEF OrderInv
    <2>4. \A v, w \in Opened' : v <= w => Rank(home'[v]) <= Rank(home'[w])
      <3> SUFFICES ASSUME NEW v \in Opened', NEW w \in Opened', v <= w
                   PROVE  Rank(home'[v]) <= Rank(home'[w])
        OBVIOUS
      <3>1. CASE w \in Opened
        <4>1. v \in Opened
          BY <2>1, <3>1
        <4> QED BY <2>1, <3>1, <4>1 DEF OrderInv
      <3>2. CASE w = Len(home')
        BY <1>2, <2>1, <3>2 DEF OrderInv
      <3> QED BY <2>1, <3>1, <3>2
    <2> QED BY <1>1, <2>2, <2>3, <2>4 DEF OrderInv
  <1>5. CASE home' = home
    <2>1. Opened' = Opened
      BY <1>5 DEF Opened
    <2>2. \A w \in Opened' : Rank(home'[w]) <= Rank(ShiftBegun(seen'))
      BY <1>2, <1>3, <1>5, <2>1 DEF OrderInv
    <2>3. pending' # NoPending => \A w \in Opened : Rank(home[w]) < Rank(ShiftBegun(minute'))
      <3>1. CASE pending' = pending
        BY <1>2, <1>3, <3>1 DEF OrderInv
      <3>2. CASE CheckDefers
        <4>1. Len(home) \in Opened /\ home[Len(home)].shift = current_shift
              /\ ShiftOf(minute) # current_shift /\ minute' = minute
          BY <3>2, HomeType DEF CheckDefers, CheckDone, ShiftChanged, LetterInv, clock
        <4>2. ShiftBegun(minute) \in ShiftsBegun /\ ShiftBegun(minute).shift = ShiftOf(minute)
          BY CalendarTypes DEF CoreInv, TypeOK
        <4>3. Rank(home[Len(home)]) # Rank(ShiftBegun(minute))
          BY <1>3, <4>1, <4>2, RankIsShift
        <4>4. Rank(home[Len(home)]) <= Rank(ShiftBegun(seen))
          BY <4>1 DEF OrderInv
        <4>5. \A w \in Opened : Rank(home[w]) <= Rank(home[Len(home)])
          BY <4>1, HomeType DEF OrderInv, Opened
        <4> QED BY <1>2, <1>3, <4>1, <4>3, <4>4, <4>5
      <3> QED BY <3>1, <3>2, PendingStep
    <2> QED BY <1>1, <1>5, <2>1, <2>2, <2>3 DEF OrderInv
  <1> QED BY <1>4, <1>5, HomeStep

(* A closed window keeps its shift, so that its labels are of the shift the  *)
(* RTC shows after a step only if they were before.                          *)
LEMMA CurrentBefore ==
  ASSUME ~RtcMayFail, MaxClockSets = 0, UsualShifts, CoreInv, OpenedInv, LetterInv, OrderInv,
         [Next]_vars, NEW p, p.window \in folded, Current(p)'
  PROVE  Current(p) /\ ShiftBegun(minute') = ShiftBegun(minute)
  <1>1. p.window \in Opened /\ home'[p.window] = home[p.window]
    BY HomeStep DEF OpenedInv
  <1>2. p.begun = home[p.window] /\ p.begun = ShiftBegun(minute')
    BY <1>1 DEF Current
  <1>3. Rank(home[p.window]) <= Rank(ShiftBegun(seen))
    BY <1>1 DEF OrderInv
  <1>4. /\ Rank(ShiftBegun(seen)) \in Int /\ Rank(ShiftBegun(minute)) \in Int
        /\ Rank(ShiftBegun(minute')) \in Int
        /\ Rank(ShiftBegun(seen)) <= Rank(ShiftBegun(minute))
        /\ Rank(ShiftBegun(minute)) <= Rank(ShiftBegun(minute'))
    BY RanksOnward DEF OrderInv
  <1>5. Rank(ShiftBegun(minute')) = Rank(ShiftBegun(minute))
    BY <1>2, <1>3, <1>4
  <1>6. ShiftBegun(minute) \in ShiftsBegun /\ home[p.window] \in ShiftsBegun
    BY <1>1, HomeType, CalendarTypes DEF CoreInv, TypeOK
  <1>7. ShiftBegun(minute') = ShiftBegun(minute)
    BY <1>2, <1>5, <1>6, RankIsShift
  <1> QED BY <1>2, <1>7 DEF Current

(* Nothing is current while a rollover waits or is under way.               *)
LEMMA NoneCurrentWhilePending ==
  ASSUME CoreInv, OpenedInv, OrderInv, pending # NoPending, NEW p
  PROVE  ~Current(p)
  <1> SUFFICES ASSUME Current(p) PROVE FALSE
    OBVIOUS
  <1>1. p.window \in Opened /\ home[p.window] = ShiftBegun(minute)
    BY DEF Current, OpenedInv
  <1>2. Rank(home[p.window]) < Rank(ShiftBegun(minute))
    BY <1>1 DEF OrderInv
  <1>3. Rank(ShiftBegun(minute)) \in Int
    BY CalendarTypes, RankIsShift DEF CoreInv, TypeOK
  <1> QED BY <1>1, <1>2, <1>3

LEMMA LabelType2 ==
  ASSUME CoreInv
  PROVE  /\ shift_counter \in Nat /\ ok_total \in Nat
         /\ \A p \in labels : p.serial \in Nat /\ p.window \in Nat /\ p.begun \in ShiftsBegun
         /\ checkpoint # NoCheckpoint => checkpoint.counter \in Nat /\ checkpoint.shift \in Shifts
  <1>1. shift_counter \in Nat /\ ok_total \in Nat /\ LabelType /\ checkpoint \in Checkpoints
    BY TypeParts, ConstantTypes DEF CoreInv, CountType, FlashType
  <1>2. \A p \in labels : p.serial \in Nat /\ p.window \in Nat /\ p.begun \in ShiftsBegun
    BY <1>1, ConstantTypes DEF LabelType, Windows
  <1>3. checkpoint # NoCheckpoint => checkpoint.counter \in Nat /\ checkpoint.shift \in Shifts
    BY <1>1, ConstantTypes DEF Checkpoints
  <1> QED BY <1>1, <1>2, <1>3

SerialInvs == CoreInv /\ OpenedInv /\ LetterInv /\ LossInv /\ OrderInv

(* The labels of the open window *)
LEMMA OpenLabelsStep ==
  ASSUME SerialInvs, CounterInv, [Next]_vars, ~RtcMayFail, MaxClockSets = 0,
         pc' = "run", window' = "WINDOW"
  PROVE  /\ Len(home') \notin folded'
         /\ \A p \in labels' : p.window = Len(home') => p.serial <= shift_counter'
  <1> USE DEF SerialInvs
  <1>1. /\ shift_counter \in Nat /\ \A p \in labels : p.serial \in Nat /\ p.window \in Opened
        /\ ~SetClock /\ folded \subseteq Opened
    BY LabelType2, ConstantTypes DEF SetClock, OpenedInv, CoreInv, TypeOK
  <1>2. CASE OpenByScan
    <2>1. /\ Len(home') \notin Opened /\ folded' = folded
          /\ labels' = labels \cup {[begun |-> ShiftBegun(minute), serial |-> shift_counter + 1,
                                     window |-> Len(home')]}
          /\ shift_counter' = shift_counter + 1
      BY <1>2, OpenStep DEF OpenByScan, PrintLabel
    <2> QED BY <1>1, <2>1
  <1>3. CASE OpenByTimer
    <2>1. Len(home') \notin Opened /\ UNCHANGED <<folded, labels>>
      BY <1>3, OpenStep DEF OpenByTimer
    <2> QED BY <1>1, <2>1
  <1>4. CASE PrintInWindow
    <2>1. /\ UNCHANGED <<home, folded>> /\ pc = "run" /\ window = "WINDOW"
          /\ labels' = labels \cup {[begun |-> ShiftBegun(minute), serial |-> shift_counter + 1,
                                     window |-> Len(home)]}
          /\ shift_counter' = shift_counter + 1
      BY <1>4 DEF PrintInWindow, PrintLabel
    <2> QED BY <1>1, <2>1 DEF CounterInv
  <1>5. ~Boot /\ ~Crash /\ ~CloseWindow /\ ~ApplyRollover /\ ~PersistRollover
    BY DEF Boot, Crash, CloseWindow, ApplyRollover, PersistRollover, EnterCycle, CoreInv, PendingInv
  <1>6. CASE ShiftCheck
    <2>1. UNCHANGED <<home, folded, labels, shift_counter>> /\ pc = "run" /\ window = "WINDOW"
      BY <1>6 DEF ShiftCheck, CheckUnreadable, CheckDefers, CheckRollsOver, CheckSameShift, CheckDone,
                  books
    <2> QED BY <2>1 DEF CounterInv
  <1>7. CASE ResetData \/ ClockAdvance \/ RtcComesOrGoes \/ PartitionChanges \/ UNCHANGED vars
    <2>1. /\ UNCHANGED <<home, labels, shift_counter>> /\ folded' \subseteq folded
          /\ pc = "run" /\ window = "WINDOW"
      BY <1>7 DEF ResetData, ClockAdvance, RtcComesOrGoes, PartitionChanges, vars, books, history
    <2> QED BY <2>1 DEF CounterInv
  <1> QED BY <1>1, <1>2, <1>3, <1>4, <1>5, <1>6, <1>7 DEF Next, Close

(* The labels of the closed windows *)
LEMMA CountedStep ==
  ASSUME SerialInvs, CounterInv, [Next]_vars, ~RtcMayFail, ~FlashMayFail, MaxClockSets = 0,
         UsualShifts, NEW p \in labels', Current(p)'
  PROVE  Counted(p)'
  <1> USE DEF SerialInvs
  <1>1. /\ shift_counter \in Nat /\ p.window \in folded' /\ ~SetClock
        /\ \A q \in labels : q.serial \in Nat
        /\ checkpoint # NoCheckpoint => checkpoint.counter \in Nat
    BY LabelType2, ConstantTypes DEF SetClock, Current, CoreInv, TypeOK
  <1>2. p.window \in folded => Current(p) /\ ShiftBegun(minute') = ShiftBegun(minute)
    BY CurrentBefore
  <1>3. p \in labels /\ p.window \in folded => Counted(p) /\ pending = NoPending
    BY <1>2, NoneCurrentWhilePending DEF CounterInv
  <1>4. CASE OpenByScan \/ OpenByTimer
    <2>1. folded' = folded /\ p.window \in Opened
      BY <1>1, <1>4 DEF OpenByScan, OpenByTimer, OpenedInv
    <2>2. p \in labels
      <3>1. Len(home') \notin Opened
        BY <1>4, OpenStep DEF OpenByScan, OpenByTimer
      <3>2. p \in labels \/ p.window = Len(home')
        BY <1>4 DEF OpenByScan, OpenByTimer, PrintLabel
      <3> QED BY <2>1, <3>1, <3>2
    <2>3. /\ UNCHANGED <<checkpoint, pc, current_shift>>
          /\ shift_counter' = shift_counter \/ shift_counter' = shift_counter + 1
      BY <1>4 DEF OpenByScan, OpenByTimer, PrintLabel, books, flash
    <2> QED BY <1>1, <1>3, <2>1, <2>2, <2>3 DEF Counted
  <1>5. CASE PrintInWindow
    <2>1. folded' = folded /\ p.window # Len(home)
      BY <1>1, <1>5 DEF PrintInWindow, CounterInv
    <2>2. p \in labels
      BY <1>5, <2>1 DEF PrintInWindow, PrintLabel
    <2>3. UNCHANGED <<checkpoint, pc, current_shift>> /\ shift_counter' = shift_counter + 1
      BY <1>5 DEF PrintInWindow, PrintLabel, flash
    <2> QED BY <1>1, <1>3, <2>1, <2>2, <2>3 DEF Counted
  <1>6. CASE Boot
    <2>1. Counted(p) /\ rtc_ok /\ UNCHANGED <<checkpoint, labels, folded>>
      BY <1>1, <1>3, <1>6 DEF Boot, MountFlash, Mounted, LossInv, LetterInv
    <2>2. checkpoint.shift = ShiftOf(minute) /\ p.begun.shift = ShiftOf(minute)
      BY <1>1, <1>2, <2>1, CalendarTypes DEF Counted, Current, CoreInv, TypeOK
    <2>3. Resumes
      BY <2>1, <2>2 DEF Counted, Resumes, Found, LossInv
    <2>4. current_shift' = ShiftOf(minute) /\ shift_counter' = checkpoint.counter
      BY <1>6, <2>1, <2>3 DEF Boot, BootCounter
    <2> QED BY <2>1, <2>2, <2>4 DEF Counted
  <1>7. CASE Crash
    BY <1>1, <1>3, <1>7 DEF Crash, Counted, flash, history
  <1>8. CASE CloseWindow
    <2>1. /\ pc = "run" /\ window = "WINDOW" /\ folded' = folded \cup {Len(home)}
          /\ UNCHANGED <<labels, home, minute, shift_counter, current_shift>> /\ p \in labels
      BY <1>8 DEF CloseWindow, clock
    <2>2. /\ checkpoint' # NoCheckpoint
          /\ checkpoint'.counter = shift_counter /\ checkpoint'.shift = current_shift
      BY <1>8 DEF CloseWindow, WriteCheckpoint, Mounted, LossInv, NoCheckpoint
    <2>3. CASE p.window \in folded
      BY <1>3, <2>1, <2>2, <2>3 DEF Counted
    <2>4. CASE p.window = Len(home)
      <3>1. p.serial <= shift_counter
        BY <2>1, <2>4 DEF CounterInv
      <3>2. p.begun = home[Len(home)] /\ home[Len(home)].shift = current_shift
        BY <2>1, <2>4 DEF Current, LetterInv
      <3> QED BY <2>1, <2>2, <3>1, <3>2 DEF Counted
    <2> QED BY <1>1, <2>1, <2>3, <2>4
  <1>9. ~ApplyRollover /\ ~PersistRollover
    <2>1. ApplyRollover \/ PersistRollover => p \in labels /\ p.window \in folded /\ pending # NoPending
      BY <1>1 DEF ApplyRollover, PersistRollover, history, CoreInv, PendingInv
    <2> QED BY <1>3, <2>1
  <1>10. CASE ShiftCheck
    <2>1. /\ UNCHANGED <<labels, folded, checkpoint, minute>> /\ pc = "run" /\ rtc_ok
          /\ p \in labels /\ p.window \in folded
      BY <1>1, <1>10 DEF ShiftCheck, CheckUnreadable, CheckDefers, CheckRollsOver, CheckSameShift,
                         CheckDone, clock, LetterInv
    <2>2. Counted(p) /\ p.begun.shift = ShiftOf(minute) /\ current_shift = ShiftOf(minute)
      <3>1. Current(p) /\ Counted(p)
        BY <1>2, <1>3, <2>1
      <3>2. ShiftBegun(minute).shift = ShiftOf(minute)
        BY CalendarTypes DEF CoreInv, TypeOK
      <3> QED BY <2>1, <3>1, <3>2 DEF Current, Counted
    <2>3. ~ShiftChanged
      BY <2>2 DEF ShiftChanged
    <2>4. CheckSameShift
      BY <1>10, <2>1, <2>3 DEF ShiftCheck, CheckUnreadable, CheckDefers, CheckRollsOver
    <2>5. current_shift' = ShiftOf(minute) /\ shift_counter' = shift_counter
      BY <2>4 DEF CheckSameShift
    <2> QED BY <2>1, <2>2, <2>5 DEF Counted
  <1>11. CASE ResetData
    BY <1>1, <1>11 DEF ResetData
  <1>12. CASE ClockAdvance \/ RtcComesOrGoes \/ PartitionChanges \/ UNCHANGED vars
    <2>1. UNCHANGED <<labels, folded, checkpoint, pc, current_shift, shift_counter>>
      BY <1>12 DEF ClockAdvance, RtcComesOrGoes, PartitionChanges, vars, books, flash, history
    <2> QED BY <1>1, <1>3, <2>1 DEF Counted
  <1> QED BY <1>1, <1>4, <1>5, <1>6, <1>7, <1>8, <1>9, <1>10, <1>11, <1>12 DEF Next, Close

LEMMA ReuseStep ==
  ASSUME SerialInvs, CounterInv, SerialsReusedOnlyAfterLoss, [Next]_vars,
         ~RtcMayFail, MaxClockSets = 0, UsualShifts
  PROVE  SerialsReusedOnlyAfterLoss'
  <1> USE DEF SerialInvs
  <1> SUFFICES ASSUME NEW p \in labels', NEW q \in labels',
                      p.begun = q.begun, p.serial = q.serial, p.window < q.window,
                      p.window \in folded', p.begun = home'[p.window]
               PROVE  FALSE
    BY DEF SerialsReusedOnlyAfterLoss
  <1>1. /\ Len(home) \in Nat /\ shift_counter \in Nat
        /\ \A l \in labels : l.serial \in Nat /\ l.window \in Opened /\ l.window <= Len(home)
        /\ \A w \in Opened : w \in Nat /\ w <= Len(home) /\ home'[w] = home[w]
        /\ folded \subseteq Opened
    BY LabelType2, HomeType, HomeStep DEF OpenedInv, Opened
  <1>2. CASE OpenByScan \/ PrintInWindow
    <2>1. /\ labels' = labels \cup {[begun |-> ShiftBegun(minute), serial |-> shift_counter + 1,
                                     window |-> Len(home')]}
          /\ folded' = folded /\ pc = "run"
      BY <1>2 DEF OpenByScan, PrintInWindow, PrintLabel
    <2>2. Len(home') = Len(home) \/ Len(home') = Len(home) + 1
      BY <1>2, OpenStep DEF OpenByScan, PrintInWindow
    <2>3. p \in labels /\ p.window \in folded /\ p.begun = home[p.window]
      BY <1>1, <2>1, <2>2
    <2> DEFINE new == [begun |-> ShiftBegun(minute), serial |-> shift_counter + 1,
                       window |-> Len(home')]
    <2>4. q \in labels \/ q = new
      BY <2>1
    <2>5. new.begun = ShiftBegun(minute) /\ new.serial = shift_counter + 1
      OBVIOUS
    <2>6. CASE q \in labels
      BY <2>3, <2>6 DEF SerialsReusedOnlyAfterLoss
    <2>7. CASE q.begun = ShiftBegun(minute) /\ q.serial = shift_counter + 1
      <3>1. Current(p)
        BY <2>3, <2>7 DEF Current
      <3>2. p.serial <= shift_counter
        BY <2>1, <2>3, <3>1 DEF CounterInv, Counted
      <3> QED BY <1>1, <2>3, <2>7, <3>2
    <2> QED BY <2>4, <2>5, <2>6, <2>7
  <1>3. CASE CloseWindow
    <2>1. labels' = labels /\ home' = home /\ folded' = folded \cup {Len(home)}
      BY <1>3 DEF CloseWindow
    <2>2. p.window \in folded
      BY <1>1, <2>1
    <2> QED BY <2>1, <2>2 DEF SerialsReusedOnlyAfterLoss
  <1>4. CASE ~OpenByScan /\ ~PrintInWindow /\ ~CloseWindow
    <2>1. labels' = labels /\ folded' \subseteq folded
      BY <1>4 DEF Next, Boot, Crash, OpenByTimer, Close, ApplyRollover, PersistRollover, ShiftCheck,
                  CheckUnreadable, CheckDefers, CheckRollsOver, CheckSameShift, CheckDone, SetClock,
                  ResetData, ClockAdvance, RtcComesOrGoes, PartitionChanges, vars, history
    <2>2. p \in labels /\ p.window \in folded /\ p.begun = home[p.window]
      BY <1>1, <2>1
    <2> QED BY <2>1, <2>2 DEF SerialsReusedOnlyAfterLoss
  <1> QED BY <1>2, <1>3, <1>4

(* With a readable RTC that nobody sets, flash that does not fail and shifts *)
(* as usual, two labels of one shift bear the same serial only if the power  *)
(* failed before the first one's window was closed, or the first was printed *)
(* past the boundary its window waited for.                                  *)
THEOREM SerialsNotReused ==
  ASSUME ~RtcMayFail, ~FlashMayFail, MaxClockSets = 0, UsualShifts
  PROVE  Spec => []SerialsReusedOnlyAfterLoss
  <1> DEFINE Inv == LossInv /\ OrderInv /\ CounterInv /\ SerialsReusedOnlyAfterLoss
  <1>1. Init => Inv
    <2> SUFFICES ASSUME Init PROVE Inv
      OBVIOUS
    <2>1. Opened = {}
      BY EmptySeq DEF Init, Opened
    <2>2. seen <= minute
      BY ConstantTypes DEF Init
    <2> QED BY <2>1, <2>2 DEF Init, Mounted, LossInv, OrderInv, CounterInv, SerialsReusedOnlyAfterLoss
  <1>2. CoreInv /\ OpenedInv /\ LetterInv /\ Inv /\ [Next]_vars => Inv'
    <2> SUFFICES ASSUME CoreInv, OpenedInv, LetterInv, Inv, [Next]_vars PROVE Inv'
      OBVIOUS
    <2>1. LossInv' /\ OrderInv'
      BY LossStep, OrderStep
    <2>2. CounterInv'
      BY OpenLabelsStep, CountedStep DEF CounterInv, SerialInvs
    <2>3. SerialsReusedOnlyAfterLoss'
      BY ReuseStep DEF SerialInvs
    <2> QED BY <2>1, <2>2, <2>3
  <1> QED BY <1>1, <1>2, LetterInvariant, PTL DEF Spec

-----------------------------------------------------------------------------
(* The book of shifts                                                       *)

(* The pages turned: the windows of each line. *)
Pages(lines) == [i \in DOMAIN lines |-> lines[i].windows]

LEMMA PagesAreSeq ==
  ASSUME NEW lines \in Seq(Entries)
  PROVE  Pages(lines) \in Seq(SUBSET Windows) /\ Len(Pages(lines)) = Len(lines)
  <1>1. DOMAIN lines = 1 .. Len(lines) /\ Len(lines) \in Nat
    BY LenProperties
  <1>2. \A i \in 1 .. Len(lines) : lines[i].windows \in SUBSET Windows
    <2> SUFFICES ASSUME NEW i \in 1 .. Len(lines) PROVE lines[i].windows \in SUBSET Windows
      OBVIOUS
    <2>1. lines[i] \in Entries
      BY ElementOfSeq
    <2> QED BY <2>1 DEF Entries
  <1>3. Pages(lines) = [i \in 1 .. Len(lines) |-> lines[i].windows]
    BY <1>1 DEF Pages
  <1> QED BY <1>1, <1>2, <1>3

LEMMA PagesOfNone == Pages(<< >>) = << >>
  <1>1. << >> \in Seq(Entries) /\ Len(<< >>) = 0
    BY EmptySeq
  <1>2. /\ Pages(<< >>) \in Seq(SUBSET Windows) /\ Len(Pages(<< >>)) = 0
        /\ << >> \in Seq(SUBSET Windows)
    BY <1>1, PagesAreSeq, EmptySeq
  <1> QED BY <1>1, <1>2, SeqEqual

LEMMA PagesOfAppend ==
  ASSUME NEW lines \in Seq(Entries), NEW line \in Entries
  PROVE  Pages(Append(lines, line)) = Append(Pages(lines), line.windows)
  <1> DEFINE a == Append(lines, line)
             b == Append(Pages(lines), line.windows)
  <1>1. /\ a \in Seq(Entries) /\ Len(a) = Len(lines) + 1 /\ Len(lines) \in Nat
        /\ \A i \in 1 .. Len(lines) : a[i] = lines[i]
        /\ a[Len(lines) + 1] = line
    BY AppendProperties, LenProperties
  <1>2. line.windows \in SUBSET Windows
    BY DEF Entries
  <1>3. /\ b \in Seq(SUBSET Windows) /\ Len(b) = Len(lines) + 1
        /\ \A i \in 1 .. Len(lines) : b[i] = Pages(lines)[i]
        /\ b[Len(lines) + 1] = line.windows
    BY <1>2, PagesAreSeq, AppendProperties
  <1>4. DOMAIN a = 1 .. Len(lines) + 1 /\ DOMAIN lines = 1 .. Len(lines)
    BY <1>1, LenProperties
  <1>5. Pages(a) \in Seq(SUBSET Windows) /\ Len(Pages(a)) = Len(lines) + 1
    BY <1>1, PagesAreSeq
  <1> HIDE DEF a, b
  <1>6. \A i \in 1 .. Len(lines) + 1 : Pages(a)[i] = b[i]
    <2> SUFFICES ASSUME NEW i \in 1 .. Len(lines) + 1 PROVE Pages(a)[i] = b[i]
      OBVIOUS
    <2>1. Pages(a)[i] = a[i].windows
      BY <1>4 DEF Pages
    <2>2. CASE i \in 1 .. Len(lines)
      <3>1. Pages(lines)[i] = lines[i].windows
        BY <1>4, <2>2 DEF Pages
      <3> QED BY <1>1, <1>3, <2>1, <2>2, <3>1
    <2>3. CASE i = Len(lines) + 1
      BY <1>1, <1>3, <2>1, <2>3
    <2> QED BY <1>1, <2>2, <2>3
  <1>7. Pages(a) = b
    BY <1>3, <1>5, <1>6, SeqEqual
  <1> QED BY <1>7 DEF a, b

(* Until the power fails there is nothing to resume.                        *)
BookInv == Mounted /\ (crashes = 0 /\ pc = "off" => checkpoint = NoCheckpoint)

LEMMA BookStep ==
  ASSUME ~FlashMayFail, CoreInv, BookInv, [Next]_vars
  PROVE  BookInv'
  <1>1. Mounted'
    BY HardwareStep DEF BookInv
  <1>2. crashes \in Nat
    BY TypeParts, ConstantTypes DEF CoreInv, ClockType
  <1>3. CASE Crash
    BY <1>1, <1>2, <1>3 DEF Crash, BookInv
  <1>4. CASE ~Crash
    <2>1. pc' = "off" => pc = "off" /\ (checkpoint' = checkpoint) /\ crashes' = crashes
      BY <1>4 DEF Next, Boot, OpenByScan, OpenByTimer, PrintInWindow, Close, CloseWindow, ApplyRollover,
                  PersistRollover, ShiftCheck, CheckUnreadable, CheckDefers, CheckRollsOver,
                  CheckSameShift, CheckDone, SetClock, ResetData, ClockAdvance, RtcComesOrGoes,
                  PartitionChanges, EnterCycle, vars, flash
    <2> QED BY <1>1, <2>1 DEF BookInv
  <1> QED BY <1>3, <1>4

LEMMA BookInitially == Init => Book!Init
  <1> SUFFICES ASSUME Init PROVE Book!Init
    OBVIOUS
  <1>1. Powered = TRUE /\ Len(home) = 0 /\ Pages(stats) = << >>
    BY EmptySeq, PagesOfNone DEF Init, Powered
  <1> QED BY <1>1 DEF Init, Book!Init, Pages

(* A rollover turns the page. *)
LEMMA RolloverTurns ==
  ASSUME CoreInv, Mounted, ~FlashMayFail, NEW shift, NEW date, Rollover(shift, date)
  PROVE  Pages(stats') = Append(Pages(stats), totals) /\ totals' = {}
  <1> DEFINE line == [date |-> shift_rec_date, shift |-> current_shift, windows |-> totals]
  <1>1. stats \in Seq(Entries) /\ line \in Entries
    BY DEF CoreInv, TypeOK, Entries
  <1>2. stats' = Append(stats, line) /\ line.windows = totals
    BY DEF Rollover, WriteShiftStats
  <1>3. Pages(stats') = Append(Pages(stats), line.windows)
    BY <1>1, <1>2, PagesOfAppend
  <1> QED BY <1>2, <1>3 DEF Rollover

(* Every step is a step of the book, or does not show in it.                *)
LEMMA BookRefinesStep ==
  ASSUME ~FlashMayFail, CoreInv, BookInv, [Next]_vars
  PROVE  [Book!Next]_(Book!vars)
  <1>1. crashes \in Nat
    BY TypeParts, ConstantTypes DEF CoreInv, ClockType
  <1>2. CASE Crash /\ crashes = 0
    <2>1. Powered = TRUE /\ Powered' = FALSE
      BY <1>2 DEF Crash, Powered
    <2>2. Book!PowerFails
      BY <2>1 DEF Book!PowerFails
    <2> QED BY <2>2 DEF Book!Next
  <1>3. CASE crashes # 0
    <2>1. Powered = FALSE /\ Powered' = FALSE
      <3>1. Crash => crashes' = crashes + 1
        BY DEF Crash
      <3> QED BY <1>1, <1>3, <3>1, HardwareStep DEF Powered
    <2>2. UNCHANGED Book!vars
      BY <2>1 DEF Book!vars
    <2> QED BY <2>2
  <1>4. CASE ~Crash /\ crashes = 0
    <2>1. Powered = TRUE /\ Powered' = TRUE
      BY <1>4, HardwareStep DEF Powered
    <2>2. CASE OpenByScan \/ OpenByTimer
      <3>1. /\ pc = "run" /\ window # "WINDOW" /\ pc' = pc /\ window' = "WINDOW"
            /\ UNCHANGED <<totals, stats>>
        BY <2>2 DEF OpenByScan, OpenByTimer, OpenWindow, books, flash
      <3>2. Len(home') = Len(home) + 1
        BY <2>2, OpenStep DEF OpenByScan, OpenByTimer
      <3>3. Book!OpenWindow
        BY <2>1, <3>1, <3>2 DEF Book!OpenWindow
      <3> QED BY <3>3 DEF Book!Next
    <2>3. CASE CloseWindow
      <3>1. /\ pc = "run" /\ window = "WINDOW" /\ ~(window' = "WINDOW" /\ pc' = "run")
            /\ totals' = totals \cup {Len(home)} /\ UNCHANGED <<home, stats>>
        BY <2>3 DEF CloseWindow, EnterCycle
      <3>2. Book!CloseWindow
        BY <2>1, <3>1 DEF Book!CloseWindow
      <3> QED BY <3>2 DEF Book!Next
    <2>4. CASE ApplyRollover \/ CheckRollsOver
      <3>1. Pages(stats') = Append(Pages(stats), totals) /\ totals' = {}
        BY <2>4, RolloverTurns DEF ApplyRollover, CheckRollsOver, BookInv
      <3>2. /\ ~(window = "WINDOW" /\ pc = "run") /\ ~(window' = "WINDOW" /\ pc' = "run")
            /\ home' = home
        BY <2>4 DEF ApplyRollover, CheckRollsOver, CheckDone, history
      <3>3. Book!TurnPage
        BY <2>1, <3>1, <3>2 DEF Book!TurnPage, Pages
      <3> QED BY <3>3 DEF Book!Next
    <2>5. CASE ResetData
      <3>1. stats' = << >> /\ UNCHANGED <<window, pc, home, totals>>
        BY <2>5 DEF ResetData, books
      <3>2. Pages(stats') = << >>
        BY <3>1, PagesOfNone
      <3>3. Book!Wipe
        BY <2>1, <3>1, <3>2 DEF Book!Wipe, Pages
      <3> QED BY <3>3 DEF Book!Next
    <2>6. CASE Boot
      <3>1. /\ totals = {} /\ totals' = {} /\ pc = "off" /\ window' = "WAIT"
            /\ UNCHANGED <<stats, home>>
        BY <1>4, <2>6 DEF Boot, MountFlash, Mounted, Resumes, Found, BookInv, CoreInv, PendingInv
      <3>2. UNCHANGED Book!vars
        BY <2>1, <3>1 DEF Book!vars
      <3> QED BY <3>2
    <2>7. CASE PersistRollover
      <3>1. pc = "persist" /\ window' = "CYCLE" /\ UNCHANGED <<totals, stats, home>>
        BY <2>7 DEF PersistRollover, EnterCycle, books, history
      <3>2. UNCHANGED Book!vars
        BY <2>1, <3>1 DEF Book!vars
      <3> QED BY <3>2
    <2>8. CASE \/ PrintInWindow \/ CheckUnreadable \/ CheckDefers \/ CheckSameShift \/ SetClock
               \/ ClockAdvance \/ RtcComesOrGoes \/ PartitionChanges \/ UNCHANGED vars
      <3>1. UNCHANGED <<totals, stats, home, window, pc>>
        BY <2>8 DEF PrintInWindow, CheckUnreadable, CheckDefers, CheckSameShift, CheckDone, SetClock,
                    ClockAdvance, RtcComesOrGoes, PartitionChanges, vars, books, flash, history
      <3>2. UNCHANGED Book!vars
        BY <2>1, <3>1 DEF Book!vars
      <3> QED BY <3>2
    <2> QED BY <1>4, <2>2, <2>3, <2>4, <2>5, <2>6, <2>7, <2>8 DEF Next, Close, ShiftCheck
  <1> QED BY <1>2, <1>3, <1>4

(* While flash does not fail the ledger implements the book: windows enter   *)
(* the running page as they close, pages are turned whole and never under an *)
(* open window, whatever the RTC and the console do to the shift.            *)
THEOREM LedgerKeepsBook ==
  ASSUME ~FlashMayFail
  PROVE  Spec => ShiftBookSpec
  <1>1. Init => BookInv /\ Book!Init
    BY BookInitially DEF Init, BookInv, Mounted
  <1>2. CoreInv /\ BookInv /\ [Next]_vars => BookInv'
    BY BookStep
  <1>3. CoreInv /\ BookInv /\ [Next]_vars => [Book!Next]_(Book!vars)
    BY BookRefinesStep
  <1> QED BY <1>1, <1>2, <1>3, CoreInvariant, PTL DEF Spec, ShiftBookSpec, Book!Spec
=============================================================================
