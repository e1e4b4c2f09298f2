------------------------------ MODULE HmiMessages ------------------------------
(***************************************************************************)
(* The MESSAGE line: the condition registry of hmi.cpp and the queue of    *)
(* config confirmations of config_manager.cpp that feeds one of its slots. *)
(*                                                                         *)
(* The order of the slots is the order of the severities their owners      *)
(* pass.  Time is millis() modulo MillisMod, in ticks; it passes between   *)
(* the services, for at most MaxLag ticks, and inside the one handler that *)
(* reads millis() twice.  A slot can therefore be past its time before its *)
(* service sees it.                                                        *)
(***************************************************************************)
EXTENDS Integers, Sequences, FiniteSetsExt

CONSTANTS
  MillisMod,      \* millis() counts modulo this
  RejectMs,       \* how long a rejection is shown
  ConfigMs,       \* CONFIG_CONFIRM_DISPLAY_MS
  QueueLen,       \* CONFIG_CONFIRM_QUEUE_LEN
  MaxLag,         \* ticks at most from one service of loop() to the next
  MaxTokens,      \* bound: tokens in one config barcode
  Texts,          \* the texts an owner may show
  RoutineTexts    \* those of enter_state(), one for each state

Nothing == "nothing"     \* the text of a slot that is not active

ASSUME HmiAssumption ==
  /\ {MillisMod, RejectMs, ConfigMs, QueueLen, MaxLag, MaxTokens} \subseteq Nat \ {0}
  /\ RoutineTexts # {} /\ RoutineTexts \subseteq Texts /\ Nothing \notin Texts
  /\ RejectMs < MillisMod \div 2 /\ ConfigMs < MillisMod \div 2
  /\ 2 * MaxLag + 1 < MillisMod \div 2

(* ROUTINE, CONFIG, REJECT, SCANNER, PRINTER *)
ROUTINE == 0
CONFIG == 1
REJECT == 2
SCANNER == 3
PRINTER == 4
Conditions == ROUTINE .. PRINTER

(* A rejection and the scanner's fault are always worded the same. *)
FixedText == CHOOSE t \in Texts : TRUE

VARIABLES
  now,
  since,              \* ticks since loop() last called a service
  text,               \* hmi_conditions[].text, Nothing when not active
  expire_at_ms,       \* hmi_conditions[].expire_at_ms
  currently_shown,    \* hmi_currently_shown
  message,            \* what the MESSAGE line of the display shows
  queue, queue_pos, advance_at_ms, confirm_active,    \* s_confirm_...
  loop_pc             \* the service loop() calls next

registry == <<text, expire_at_ms, currently_shown, message>>
confirms == <<queue, queue_pos, advance_at_ms, confirm_active>>
vars == <<now, since, registry, confirms, loop_pc>>

Clock == 0 .. MillisMod - 1

TypeOK ==
  /\ now \in Clock /\ since \in 0 .. MaxLag
  /\ text \in [Conditions -> Texts \cup {Nothing}]
  /\ expire_at_ms \in [Conditions -> Clock]
  /\ currently_shown \in Conditions
  /\ message \in Texts
  /\ queue \in Seq(Texts) /\ Len(queue) <= QueueLen
  /\ queue_pos \in 0 .. Len(queue)
  /\ advance_at_ms \in Clock
  /\ confirm_active \in BOOLEAN
  /\ loop_pc \in {"conditions", "confirms"}
-----------------------------------------------------------------------------
Later(ms) == (now + ms) % MillisMod

ActiveIn(shown) == {id \in Conditions : shown[id] # Nothing}

(* Definitions named Wrong... are used by nothing: each is the definition  *)
(* after it with a mistake the code could have, which a property must see. *)

(* The text is written only when another slot takes the line over. *)
WrongRefreshDisplay(shown) ==
  LET best == Max(ActiveIn(shown))
  IN  /\ currently_shown' = best
      /\ message' = IF best # currently_shown THEN shown[best] ELSE message

(* hmi_condition_refresh_display() after the slots have become shown, but  *)
(* for the buzzer, which no other state depends on.                        *)
RefreshDisplay(shown) ==
  LET best == Max(ActiveIn(shown))
  IN  /\ currently_shown' = best
      /\ message' = shown[best]

(* hmi_condition_set(); a duration of 0 stays until it is cleared. *)
ConditionSet(id, t, duration) ==
  /\ text' = [text EXCEPT ![id] = t]
  /\ expire_at_ms' = [expire_at_ms EXCEPT ![id] = IF duration = 0 THEN 0 ELSE Later(duration)]
  /\ RefreshDisplay(text')

(* hmi_condition_clear() *)
ConditionClear(id) ==
  IF text[id] = Nothing THEN UNCHANGED registry
  ELSE /\ text' = [text EXCEPT ![id] = Nothing]
       /\ RefreshDisplay(text')
       /\ UNCHANGED expire_at_ms

(* The loop over the slots stops one short. *)
WrongExpired ==
  {id \in ActiveIn(text) : id < REJECT /\ expire_at_ms[id] # 0 /\ now >= expire_at_ms[id]}

(* The slots hmi_condition_service() takes down now. *)
Expired == {id \in ActiveIn(text) : expire_at_ms[id] # 0 /\ now >= expire_at_ms[id]}

(* The position is not moved on. *)
WrongQueueAdvance(messages, pos, late) ==
  IF pos >= Len(messages)
    THEN /\ ConditionClear(CONFIG)
         /\ confirm_active' = FALSE
         /\ queue_pos' = pos
         /\ UNCHANGED advance_at_ms
    ELSE /\ ConditionSet(CONFIG, messages[pos + 1], ConfigMs)
         /\ advance_at_ms' = Later(late + ConfigMs)
         /\ queue_pos' = pos
         /\ confirm_active' = TRUE

(* confirm_queue_advance() over a queue whose next message is at pos + 1;  *)
(* millis() is read for the slot and, late ticks on, for the queue.        *)
QueueAdvance(messages, pos, late) ==
  IF pos >= Len(messages)
    THEN /\ ConditionClear(CONFIG)
         /\ confirm_active' = FALSE
         /\ queue_pos' = pos
         /\ UNCHANGED advance_at_ms
    ELSE /\ ConditionSet(CONFIG, messages[pos + 1], ConfigMs)
         /\ advance_at_ms' = Later(late + ConfigMs)
         /\ queue_pos' = pos + 1
         /\ confirm_active' = TRUE

(* The next message is loaded in the next pass. *)
WrongAdvanceDue == confirm_active

(* (long)(millis() - s_confirm_advance_at_ms) >= 0 *)
AdvanceDue == confirm_active /\ (now - advance_at_ms) % MillisMod < MillisMod \div 2
-----------------------------------------------------------------------------
(* hmi_init() has put the first text into the ROUTINE slot. *)
Init ==
  /\ now = 0 /\ since = 0
  /\ \E t \in RoutineTexts :
       /\ text = [id \in Conditions |-> IF id = ROUTINE THEN t ELSE Nothing]
       /\ message = t
  /\ expire_at_ms = [id \in Conditions |-> 0]
  /\ currently_shown = ROUTINE
  /\ queue = << >> /\ queue_pos = 0 /\ advance_at_ms = 0 /\ confirm_active = FALSE
  /\ loop_pc = "conditions"

(* enter_state() *)
ShowRoutine ==
  /\ \E t \in RoutineTexts : ConditionSet(ROUTINE, t, 0)
  /\ UNCHANGED <<now, since, confirms, loop_pc>>

(* set_printer_fault() and set_scanner_fault(); the printer says why. *)
FaultShown ==
  /\ \/ ConditionSet(SCANNER, FixedText, 0)
     \/ \E t \in Texts : ConditionSet(PRINTER, t, 0)
  /\ UNCHANGED <<now, since, confirms, loop_pc>>

FaultCleared ==
  /\ \E id \in {SCANNER, PRINTER} : ConditionClear(id)
  /\ UNCHANGED <<now, since, confirms, loop_pc>>

(* Gate 3 of onBarcodeScanned() *)
ShowReject ==
  /\ ConditionSet(REJECT, FixedText, RejectMs)
  /\ UNCHANGED <<now, since, confirms, loop_pc>>

(* A message for each token of a config barcode, none for one that cannot  *)
(* be read.                                                                *)
Results == UNION {[1 .. n -> Texts] : n \in 0 .. MaxTokens}

(* What does not fit is not dropped. *)
WrongQueued == Results

(* What does not fit into s_confirm_queue is dropped. *)
Queued == {SubSeq(results, 1, Min({QueueLen, Len(results)})) : results \in Results}

(* parse_config_barcode(): the messages are queued and the first is shown. *)
ScanConfig ==
  /\ \E messages \in Queued, late \in 0 .. 1 :
       /\ queue' = messages
       /\ QueueAdvance(queue', 0, late)
       /\ since' = since + late /\ since' <= MaxLag /\ now' = Later(late)
  /\ UNCHANGED loop_pc

(* hmi_condition_service() *)
ConditionService ==
  /\ loop_pc = "conditions"
  /\ loop_pc' = "confirms"
  /\ since' = 0
  /\ text' = [id \in Conditions |-> IF id \in Expired THEN Nothing ELSE text[id]]
  /\ IF Expired = {} THEN UNCHANGED <<currently_shown, message>>
                     ELSE RefreshDisplay(text')
  /\ UNCHANGED <<now, expire_at_ms, confirms>>

(* config_confirm_service() *)
ConfirmService ==
  /\ loop_pc = "confirms"
  /\ loop_pc' = "conditions"
  /\ \/ /\ AdvanceDue
        /\ \E late \in 0 .. 1 :
             /\ QueueAdvance(queue, queue_pos, late)
             /\ since' = late /\ now' = Later(late)
     \/ /\ ~AdvanceDue
        /\ since' = 0
        /\ UNCHANGED <<now, registry, queue_pos, advance_at_ms, confirm_active>>
  /\ UNCHANGED queue

(* Time passes whatever is past its time. *)
Tick ==
  /\ since < MaxLag
  /\ since' = since + 1
  /\ now' = Later(1)
  /\ UNCHANGED <<registry, confirms, loop_pc>>

Next ==
  \/ ShowRoutine \/ FaultShown \/ FaultCleared \/ ShowReject \/ ScanConfig
  \/ ConditionService \/ ConfirmService \/ Tick

Spec == Init /\ [][Next]_vars

(* loop() runs forever and calls both services in each pass; time passes   *)
(* however often the slots change.                                         *)
FairSpec ==
  Spec /\ WF_vars(ConditionService) /\ WF_vars(ConfirmService) /\ SF_vars(Tick)
-----------------------------------------------------------------------------
(* Safety *)

(* "The display always shows whichever ACTIVE slot has the highest         *)
(* severity; when that one clears, the next highest active slot takes over *)
(* automatically", whatever expires, is cleared or is set again meanwhile. *)
MessageIsHighest == message = text[Max(ActiveIn(text))]

(* "Each result is queued here and shown one at a time,                    *)
(* CONFIG_CONFIRM_DISPLAY_MS apiece": unless a config barcode restarts the *)
(* sequence, a confirmation leaves its slot only after its time, for       *)
(* nothing or for the next one of the same barcode, although two services  *)
(* watch two clocks read at different times.  Only a confirmation whose    *)
(* time lies wholly on one side of the wrap of millis() is meant: one that *)
(* is due beyond the wrap hmi_condition_service() takes down at once.      *)
ConfirmationsInTurn ==
  [][ /\ confirm_active /\ text'[CONFIG] # text[CONFIG] /\ ~ScanConfig
      /\ expire_at_ms[CONFIG] >= ConfigMs
      => /\ (now - expire_at_ms[CONFIG]) % MillisMod < MillisMod \div 2
         /\ text'[CONFIG] # Nothing => text'[CONFIG] = queue[queue_pos + 1] ]_vars

(* What hmi.h says of a slot with a duration, it "auto-clears itself after *)
(* that many ms", of a rejection: it is never found standing longer than a *)
(* pass of loop() after its time.  It is, when it was due at the 0 that    *)
(* means never, or after the last service before the wrap of millis().     *)
RejectLeavesInTime ==
  LET over == (now - expire_at_ms[REJECT]) % MillisMod
  IN  text[REJECT] # Nothing /\ over < MillisMod \div 2 => over <= 2 * MaxLag
-----------------------------------------------------------------------------
(* Liveness *)

(* A rejection leaves the line by itself: it "auto-expires after 3s",      *)
(* unless its expiry falls on the 0 that stands for never, or so close to  *)
(* the wrap of millis() that no service runs between the two.              *)
RejectsEnd ==
  <>[][~ShowReject]_vars =>
    <>[](\/ text[REJECT] = Nothing
         \/ expire_at_ms[REJECT] = 0
         \/ expire_at_ms[REJECT] > MillisMod - 2 * MaxLag)

(* After the last config barcode every queued confirmation gets its turn   *)
(* and then the slot is free for good, also across the wrap of millis().   *)
ConfirmationsEnd ==
  <>[][ConfirmService \/ UNCHANGED confirms]_vars =>
    <>[](~confirm_active /\ text[CONFIG] = Nothing)
=============================================================================
