--------------------------- MODULE HmiMessages_proofs ---------------------------
(* Theorems about HmiMessages, for every width of millis(), all durations the  *)
(* assumption allows, every length of the queue and every set of texts.        *)
EXTENDS HmiMessages, SequenceTheorems, TLAPS

Half == MillisMod \div 2

LEMMA HmiConstants ==
  /\ MillisMod \in Nat /\ MillisMod > 1
  /\ RejectMs \in Nat /\ RejectMs > 0 /\ 2 * RejectMs < MillisMod
  /\ ConfigMs \in Nat /\ ConfigMs > 0 /\ 2 * ConfigMs < MillisMod
  /\ QueueLen \in Nat /\ MaxTokens \in Nat /\ MaxLag \in Nat /\ MaxLag > 0
  /\ Half \in Nat /\ 2 * Half <= MillisMod /\ ConfigMs < Half /\ 2 * MaxLag + 1 < Half
  /\ Nothing \notin Texts
  <1>1. /\ MillisMod \in Nat /\ MillisMod > 0 /\ RejectMs \in Nat /\ RejectMs > 0
        /\ ConfigMs \in Nat /\ ConfigMs > 0 /\ QueueLen \in Nat /\ MaxTokens \in Nat
        /\ MaxLag \in Nat /\ MaxLag > 0 /\ 2 * MaxLag + 1 < MillisMod \div 2
        /\ RejectMs < MillisMod \div 2 /\ ConfigMs < MillisMod \div 2
        /\ Nothing \notin Texts
    BY HmiAssumption
  <1>2. 2 * (MillisMod \div 2) <= MillisMod /\ MillisMod \div 2 \in Int
    BY <1>1
  <1> QED BY <1>1, <1>2 DEF Half

LEMMA FixedTextShown == FixedText \in Texts
  <1>1. \E t \in Texts : TRUE
    BY HmiAssumption
  <1> QED BY <1>1 DEF FixedText

LEMMA Slots ==
  /\ Conditions = {0, 1, 2, 3, 4}
  /\ ROUTINE = 0 /\ CONFIG = 1 /\ REJECT = 2 /\ SCANNER = 3 /\ PRINTER = 4
BY DEF Conditions, ROUTINE, CONFIG, REJECT, SCANNER, PRINTER

-----------------------------------------------------------------------------
(* The clock                                                                  *)

(* A multiple of a width and a residue add up in one way only.                *)
LEMMA NearestResidue ==
  ASSUME NEW n \in Int, NEW r \in Clock,
         n = r \/ n = r + MillisMod \/ n = r - MillisMod
  PROVE  n % MillisMod = r
  <1> DEFINE s == n % MillisMod
             q == n \div MillisMod
  <1>1. s \in 0 .. MillisMod - 1 /\ q \in Int /\ n = MillisMod * q + s
    BY HmiConstants
  <1>2. /\ MillisMod * 0 = 0 /\ MillisMod * 1 = MillisMod /\ MillisMod * (0 - 1) = 0 - MillisMod
        /\ MillisMod * 2 = MillisMod + MillisMod /\ MillisMod * (0 - 2) = 0 - MillisMod - MillisMod
    BY HmiConstants
  <1>3. /\ q >= 2 => MillisMod * q >= MillisMod * 2
        /\ q <= 0 - 2 => MillisMod * q <= MillisMod * (0 - 2)
    BY <1>1, HmiConstants
  <1> HIDE DEF s, q
  <1>4. q = 0 - 1 \/ q = 0 \/ q = 1
    BY <1>1, <1>2, <1>3, HmiConstants DEF Clock
  <1>5. s = r
    BY <1>1, <1>2, <1>4, HmiConstants DEF Clock
  <1> QED BY <1>5 DEF s

LEMMA LaterValue ==
  ASSUME now \in Clock, NEW ms \in Clock
  PROVE  /\ Later(ms) \in Clock
         /\ Later(ms) = IF now + ms < MillisMod THEN now + ms ELSE now + ms - MillisMod
  <1> DEFINE r == IF now + ms < MillisMod THEN now + ms ELSE now + ms - MillisMod
  <1>1. r \in Clock /\ now + ms \in Int /\ (now + ms = r \/ now + ms = r + MillisMod)
    BY HmiConstants DEF Clock
  <1> HIDE DEF r
  <1>2. (now + ms) % MillisMod = r
    BY <1>1, NearestResidue
  <1> QED BY <1>1, <1>2 DEF Later, r

(* How far the clock is past t, going round.                                  *)
Past(t) == IF now >= t THEN now - t ELSE now - t + MillisMod

LEMMA PastValue ==
  ASSUME now \in Clock, NEW t \in Clock
  PROVE  (now - t) % MillisMod = Past(t)
  <1> DEFINE r == IF now >= t THEN now - t ELSE now - t + MillisMod
  <1>1. r \in Clock /\ now - t \in Int /\ (now - t = r \/ now - t = r - MillisMod)
    BY HmiConstants DEF Clock
  <1> HIDE DEF r
  <1>2. (now - t) % MillisMod = r
    BY <1>1, NearestResidue
  <1> QED BY <1>2 DEF r, Past

-----------------------------------------------------------------------------
(* The slots                                                                  *)

(* Texts for the slots, of which ROUTINE is never empty.                      *)
Worded(shown) == shown \in [Conditions -> Texts \cup {Nothing}] /\ shown[ROUTINE] \in Texts

LEMMA HighestActive ==
  ASSUME NEW shown, Worded(shown)
  PROVE  /\ Max(ActiveIn(shown)) \in ActiveIn(shown)
         /\ Max(ActiveIn(shown)) \in Conditions
         /\ shown[Max(ActiveIn(shown))] \in Texts
  <1> DEFINE S == ActiveIn(shown)
             IsMax(x) == \A y \in S : x >= y
  <1>1. S \subseteq Conditions /\ 0 \in S
    BY HmiConstants, Slots DEF Worded, ActiveIn
  <1>2. \E x \in S : IsMax(x)
    <2>1. CASE 4 \in S
      BY <1>1, <2>1, Slots
    <2>2. CASE 4 \notin S /\ 3 \in S
      BY <1>1, <2>2, Slots
    <2>3. CASE 4 \notin S /\ 3 \notin S /\ 2 \in S
      BY <1>1, <2>3, Slots
    <2>4. CASE 4 \notin S /\ 3 \notin S /\ 2 \notin S
      BY <1>1, <2>4, Slots
    <2> QED BY <2>1, <2>2, <2>3, <2>4
  <1>3. (CHOOSE x \in S : IsMax(x)) \in S
    BY <1>2, Zenon
  <1>4. Max(S) \in S
    BY <1>3 DEF Max
  <1>5. \A id \in S : shown[id] \in Texts
    BY DEF Worded, ActiveIn
  <1> QED BY <1>1, <1>4, <1>5

-----------------------------------------------------------------------------
(* The inductive invariant                                                    *)

(* The registry: slots, of which ROUTINE never expires, the slot that has the *)
(* line, and the line.                                                        *)
RegistryInv ==
  /\ Worded(text)
  /\ expire_at_ms \in [Conditions -> Clock] /\ expire_at_ms[ROUTINE] = 0
  /\ currently_shown = Max(ActiveIn(text))
  /\ message = text[currently_shown]

QueueInv ==
  /\ queue \in Seq(Texts) /\ Len(queue) <= QueueLen
  /\ queue_pos \in 0 .. Len(queue)
  /\ advance_at_ms \in Clock
  /\ confirm_active \in BOOLEAN

(* The time since config_confirm_service() last ran is at most this.          *)
Lag == since + IF loop_pc = "confirms" THEN MaxLag ELSE 0

(* While a confirmation has its turn, its slot expires when the queue moves   *)
(* on or a tick before; the queue is due within ConfigMs, or it has been due  *)
(* only since its service last ran.                                           *)
TurnInv ==
  confirm_active =>
    /\ \/ expire_at_ms[CONFIG] = advance_at_ms
       \/ expire_at_ms[CONFIG] = advance_at_ms - 1
       \/ advance_at_ms = 0 /\ expire_at_ms[CONFIG] = MillisMod - 1
    /\ Past(advance_at_ms) <= Lag \/ MillisMod - Past(advance_at_ms) <= ConfigMs

HmiInv ==
  /\ now \in Clock /\ since \in 0 .. MaxLag /\ loop_pc \in {"conditions", "confirms"}
  /\ RegistryInv
  /\ QueueInv
  /\ TurnInv

-----------------------------------------------------------------------------
(* The helpers of the registry                                                *)

LEMMA RefreshKeeps ==
  ASSUME RegistryInv, Worded(text'), RefreshDisplay(text'),
         expire_at_ms' \in [Conditions -> Clock], expire_at_ms'[ROUTINE] = 0
  PROVE  RegistryInv'
  <1> DEFINE best == Max(ActiveIn(text'))
  <1>1. best \in Conditions
    BY HighestActive
  <1>2. currently_shown' = best /\ message' = text'[best]
    BY DEF RefreshDisplay
  <1>3. best = Max(ActiveIn(text))'
    BY DEF ActiveIn
  <1> HIDE DEF best
  <1>6. Worded(text)'
    BY DEF Worded
  <1>7. currently_shown' = Max(ActiveIn(text))' /\ message' = text'[currently_shown']
    BY <1>2, <1>3
  <1> QED BY <1>6, <1>7 DEF RegistryInv, Clock

LEMMA SetKeeps ==
  ASSUME NEW id \in Conditions, NEW t \in Texts, NEW duration \in Clock,
         id = ROUTINE => duration = 0, now \in Clock, RegistryInv, ConditionSet(id, t, duration)
  PROVE  /\ RegistryInv'
         /\ text' = [text EXCEPT ![id] = t]
         /\ expire_at_ms' = [expire_at_ms EXCEPT ![id] = IF duration = 0 THEN 0 ELSE Later(duration)]
  <1>1. /\ text' = [text EXCEPT ![id] = t]
        /\ expire_at_ms' = [expire_at_ms EXCEPT ![id] = IF duration = 0 THEN 0 ELSE Later(duration)]
        /\ RefreshDisplay(text')
    BY DEF ConditionSet
  <1>2. Worded(text')
    BY <1>1, Slots DEF RegistryInv, Worded
  <1>3. (IF duration = 0 THEN 0 ELSE Later(duration)) \in Clock
    BY LaterValue, HmiConstants DEF Clock
  <1>4. expire_at_ms' \in [Conditions -> Clock] /\ expire_at_ms'[ROUTINE] = 0
    BY <1>1, <1>3, Slots DEF RegistryInv
  <1> QED BY <1>1, <1>2, <1>4, RefreshKeeps

LEMMA StandsKeeps ==
  ASSUME RegistryInv, UNCHANGED registry
  PROVE  RegistryInv'
  <1>1. /\ text' = text /\ expire_at_ms' = expire_at_ms /\ currently_shown' = currently_shown
        /\ message' = message
    BY DEF registry
  <1> QED BY <1>1 DEF RegistryInv, Worded, ActiveIn, Clock

LEMMA ClearKeeps ==
  ASSUME NEW id \in Conditions \ {ROUTINE}, RegistryInv, ConditionClear(id)
  PROVE  /\ RegistryInv'
         /\ text' = [text EXCEPT ![id] = Nothing]
         /\ expire_at_ms' = expire_at_ms
  <1>1. CASE text[id] = Nothing
    <2>1. UNCHANGED registry
      BY <1>1 DEF ConditionClear
    <2>2. text' = text /\ expire_at_ms' = expire_at_ms
      BY <2>1 DEF registry
    <2>3. text = [text EXCEPT ![id] = Nothing]
      BY <1>1 DEF RegistryInv, Worded
    <2> QED BY <2>1, <2>2, <2>3, StandsKeeps
  <1>2. CASE text[id] # Nothing
    <2>1. /\ text' = [text EXCEPT ![id] = Nothing] /\ RefreshDisplay(text')
          /\ expire_at_ms' = expire_at_ms
      BY <1>2 DEF ConditionClear
    <2>2. Worded(text') /\ expire_at_ms' \in [Conditions -> Clock] /\ expire_at_ms'[ROUTINE] = 0
      BY <2>1, Slots DEF RegistryInv, Worded
    <2> QED BY <2>1, <2>2, RefreshKeeps
  <1> QED BY <1>1, <1>2

(* confirm_queue_advance() shows the next message for its whole time, or      *)
(* frees the slot after the last.                                             *)
LEMMA AdvanceKeeps ==
  ASSUME NEW messages, NEW pos \in 0 .. Len(messages), NEW late \in 0 .. 1,
         messages \in Seq(Texts), Len(messages) <= QueueLen,
         HmiInv, QueueAdvance(messages, pos, late), queue' = messages, now' = Later(late)
  PROVE  /\ RegistryInv' /\ QueueInv' /\ TurnInv'
         /\ text'[CONFIG] # Nothing => text'[CONFIG] = messages[pos + 1]
  <1>1. RegistryInv /\ now \in Clock /\ advance_at_ms \in Clock /\ CONFIG \in Conditions \ {ROUTINE}
    BY Slots DEF HmiInv, QueueInv
  <1>2. text \in [Conditions -> Texts \cup {Nothing}] /\ expire_at_ms \in [Conditions -> Clock]
    BY <1>1 DEF RegistryInv, Worded
  <1>3. CASE pos >= Len(messages)
    <2>1. /\ ConditionClear(CONFIG) /\ confirm_active' = FALSE /\ queue_pos' = pos
          /\ advance_at_ms' = advance_at_ms
      BY <1>3 DEF QueueAdvance
    <2>2. RegistryInv' /\ text' = [text EXCEPT ![CONFIG] = Nothing]
      BY <1>1, <2>1, ClearKeeps
    <2>3. text'[CONFIG] = Nothing
      BY <1>1, <1>2, <2>2
    <2>4. QueueInv' /\ TurnInv'
      BY <1>1, <2>1 DEF QueueInv, TurnInv, Clock
    <2> QED BY <2>2, <2>3, <2>4
  <1>4. CASE pos < Len(messages)
    <2>1. ~(pos >= Len(messages)) /\ pos + 1 \in 1 .. Len(messages)
      BY <1>4, LenProperties
    <2>2. /\ ConditionSet(CONFIG, messages[pos + 1], ConfigMs) /\ confirm_active' = TRUE
          /\ queue_pos' = pos + 1 /\ advance_at_ms' = Later(late + ConfigMs)
      BY <2>1 DEF QueueAdvance
    <2>3. /\ messages[pos + 1] \in Texts /\ ConfigMs # 0
          /\ ConfigMs \in Clock /\ late \in Clock /\ late + ConfigMs \in Clock
      BY <2>1, ElementOfSeq, HmiConstants DEF Clock
    <2>4. /\ RegistryInv' /\ text' = [text EXCEPT ![CONFIG] = messages[pos + 1]]
          /\ expire_at_ms' = [expire_at_ms EXCEPT ![CONFIG] = Later(ConfigMs)]
      BY <1>1, <2>2, <2>3, SetKeeps
    <2>5. text'[CONFIG] = messages[pos + 1] /\ expire_at_ms'[CONFIG] = Later(ConfigMs)
      BY <1>1, <1>2, <2>4
    <2>6. /\ advance_at_ms' \in Clock /\ now' \in Clock
          /\ advance_at_ms' = IF now + (late + ConfigMs) < MillisMod THEN now + (late + ConfigMs)
                                                                     ELSE now + (late + ConfigMs) - MillisMod
          /\ now' = IF now + late < MillisMod THEN now + late ELSE now + late - MillisMod
          /\ expire_at_ms'[CONFIG] = IF now + ConfigMs < MillisMod THEN now + ConfigMs
                                                                   ELSE now + ConfigMs - MillisMod
      BY <1>1, <2>2, <2>3, <2>5, LaterValue
    <2>7. QueueInv'
      BY <2>1, <2>2, <2>6 DEF QueueInv, Clock
    <2>8. TurnInv'
      <3>1. \/ expire_at_ms'[CONFIG] = advance_at_ms'
            \/ expire_at_ms'[CONFIG] = advance_at_ms' - 1
            \/ advance_at_ms' = 0 /\ expire_at_ms'[CONFIG] = MillisMod - 1
        BY <1>1, <2>3, <2>6, HmiConstants DEF Clock
      <3>2. MillisMod - Past(advance_at_ms)' <= ConfigMs
        BY <1>1, <2>3, <2>6, HmiConstants DEF Past, Clock
      <3> QED BY <3>1, <3>2 DEF TurnInv
    <2> QED BY <2>4, <2>5, <2>7, <2>8
  <1> QED BY <1>3, <1>4, LenProperties

-----------------------------------------------------------------------------
(* The actions                                                                *)

(* What every step does to the registry and to the queue, and the step        *)
(* relation of ConfirmationsInTurn.                                           *)
TurnStep ==
  confirm_active /\ text'[CONFIG] # text[CONFIG] /\ ~ScanConfig /\ expire_at_ms[CONFIG] >= ConfigMs
  => /\ (now - expire_at_ms[CONFIG]) % MillisMod < MillisMod \div 2
     /\ text'[CONFIG] # Nothing => text'[CONFIG] = queue[queue_pos + 1]

StepKeeps == HmiInv' /\ TurnStep

LEMMA InitHmi ==
  Init => HmiInv
  <1> SUFFICES ASSUME Init PROVE HmiInv
    OBVIOUS
  <1>1. PICK t \in Texts :
          text = [id \in Conditions |-> IF id = ROUTINE THEN t ELSE Nothing] /\ message = t
    BY HmiAssumption DEF Init
  <1>2. /\ now = 0 /\ expire_at_ms = [id \in Conditions |-> 0] /\ currently_shown = ROUTINE
        /\ since = 0
        /\ queue = << >> /\ queue_pos = 0 /\ advance_at_ms = 0 /\ confirm_active = FALSE
        /\ loop_pc = "conditions"
    BY DEF Init
  <1>3. Worded(text) /\ text[ROUTINE] = t
    BY <1>1, Slots DEF Worded
  <1>4. ActiveIn(text) = {ROUTINE}
    BY <1>1, Slots, HmiConstants DEF ActiveIn
  <1>5. Max(ActiveIn(text)) = ROUTINE
    BY <1>3, <1>4, HighestActive
  <1>6. 0 \in Clock
    BY HmiConstants DEF Clock
  <1>7. RegistryInv
    BY <1>1, <1>2, <1>3, <1>5, <1>6, Slots DEF RegistryInv
  <1>8. QueueInv
    <2>1. << >> \in Seq(Texts) /\ Len(<< >>) = 0
      BY EmptySeq
    <2>2. queue \in Seq(Texts) /\ Len(queue) = 0
      BY <1>2, <2>1
    <2>3. QueueLen \in Nat
      BY HmiConstants
    <2>4. queue_pos \in 0 .. Len(queue) /\ Len(queue) <= QueueLen
      BY <1>2, <2>2, <2>3
    <2> QED BY <1>2, <1>6, <2>2, <2>4 DEF QueueInv
  <1>9. since \in 0 .. MaxLag
    BY <1>2, HmiConstants
  <1> QED BY <1>2, <1>6, <1>7, <1>8, <1>9 DEF HmiInv, TurnInv

(* An owner of another slot leaves the confirmations alone.                   *)
LEMMA OtherSlotKeeps ==
  ASSUME HmiInv, RegistryInv', UNCHANGED <<now, since>>, UNCHANGED <<confirms, loop_pc>>,
         expire_at_ms'[CONFIG] = expire_at_ms[CONFIG], text'[CONFIG] = text[CONFIG]
  PROVE  StepKeeps
  <1>1. /\ queue' = queue /\ queue_pos' = queue_pos /\ advance_at_ms' = advance_at_ms
        /\ confirm_active' = confirm_active /\ loop_pc' = loop_pc
    BY DEF confirms
  <1>2. QueueInv' /\ TurnInv'
    BY <1>1 DEF HmiInv, QueueInv, TurnInv, Past, Lag, Clock
  <1>3. TurnStep
    BY DEF TurnStep
  <1> QED BY <1>1, <1>2, <1>3 DEF StepKeeps, HmiInv, Clock

LEMMA SetOtherKeeps ==
  ASSUME NEW id \in Conditions \ {CONFIG}, NEW t \in Texts, NEW duration \in Clock,
         id = ROUTINE => duration = 0, HmiInv, ConditionSet(id, t, duration), UNCHANGED <<now, since, confirms, loop_pc>>
  PROVE  StepKeeps
  <1>1. /\ RegistryInv'
        /\ text' = [text EXCEPT ![id] = t]
        /\ expire_at_ms' = [expire_at_ms EXCEPT ![id] = IF duration = 0 THEN 0 ELSE Later(duration)]
    BY SetKeeps DEF HmiInv
  <1>2. /\ text \in [Conditions -> Texts \cup {Nothing}] /\ expire_at_ms \in [Conditions -> Clock]
        /\ CONFIG \in Conditions
    BY Slots DEF HmiInv, RegistryInv, Worded
  <1>3. expire_at_ms'[CONFIG] = expire_at_ms[CONFIG] /\ text'[CONFIG] = text[CONFIG]
    BY <1>1, <1>2
  <1>4. UNCHANGED <<now, since>> /\ UNCHANGED <<confirms, loop_pc>>
    OBVIOUS
  <1> QED BY <1>1, <1>3, <1>4, OtherSlotKeeps

LEMMA OwnersKeep ==
  HmiInv /\ (ShowRoutine \/ FaultShown \/ FaultCleared \/ ShowReject) => StepKeeps
  <1> SUFFICES ASSUME HmiInv, ShowRoutine \/ FaultShown \/ FaultCleared \/ ShowReject
               PROVE  StepKeeps
    OBVIOUS
  <1>1. 0 \in Clock /\ RejectMs \in Clock
    BY HmiConstants DEF Clock
  <1>2. CASE ShowRoutine
    <2>1. PICK t \in Texts : ConditionSet(ROUTINE, t, 0)
      BY <1>2, HmiAssumption DEF ShowRoutine
    <2>2. UNCHANGED <<now, since, confirms, loop_pc>> /\ ROUTINE \in Conditions \ {CONFIG}
      BY <1>2, Slots DEF ShowRoutine
    <2> QED BY <1>1, <2>1, <2>2, SetOtherKeeps
  <1>3. CASE FaultShown
    <2>1. UNCHANGED <<now, since, confirms, loop_pc>> /\ {SCANNER, PRINTER} \subseteq Conditions \ {CONFIG}
      BY <1>3, Slots DEF FaultShown
    <2>2. CASE ConditionSet(SCANNER, FixedText, 0)
      BY <1>1, <2>1, <2>2, FixedTextShown, SetOtherKeeps, Slots
    <2>3. CASE \E t \in Texts : ConditionSet(PRINTER, t, 0)
      BY <1>1, <2>1, <2>3, SetOtherKeeps, Slots
    <2> QED BY <1>3, <2>2, <2>3 DEF FaultShown
  <1>4. CASE FaultCleared
    <2>1. PICK id \in {SCANNER, PRINTER} : ConditionClear(id)
      BY <1>4 DEF FaultCleared
    <2>2. /\ UNCHANGED <<now, since>> /\ UNCHANGED <<confirms, loop_pc>>
          /\ id \in Conditions \ {ROUTINE} /\ id # CONFIG /\ CONFIG \in Conditions
      BY <1>4, Slots DEF FaultCleared
    <2>3. /\ RegistryInv' /\ text' = [text EXCEPT ![id] = Nothing]
          /\ expire_at_ms' = expire_at_ms
      BY <2>1, <2>2, ClearKeeps DEF HmiInv
    <2>4. text'[CONFIG] = text[CONFIG]
      BY <2>2, <2>3 DEF HmiInv, RegistryInv, Worded
    <2> QED BY <2>2, <2>3, <2>4, OtherSlotKeeps
  <1>5. CASE ShowReject
    <2>1. UNCHANGED <<now, since, confirms, loop_pc>> /\ REJECT \in Conditions \ {CONFIG}
          /\ ConditionSet(REJECT, FixedText, RejectMs)
      BY <1>5, Slots DEF ShowReject
    <2> QED BY <1>1, <2>1, FixedTextShown, SetOtherKeeps, Slots
  <1> QED BY <1>2, <1>3, <1>4, <1>5

LEMMA LowerOfTwo ==
  ASSUME NEW a \in Nat, NEW b \in Nat
  PROVE  Min({a, b}) = IF a <= b THEN a ELSE b
  <1> DEFINE IsMin(x) == \A y \in {a, b} : x <= y
             r == IF a <= b THEN a ELSE b
  <1>1. \E x \in {a, b} : IsMin(x)
    <2>1. r \in {a, b} /\ IsMin(r)
      OBVIOUS
    <2> QED BY <2>1
  <1>2. (CHOOSE x \in {a, b} : IsMin(x)) \in {a, b} /\ IsMin(CHOOSE x \in {a, b} : IsMin(x))
    BY <1>1, Zenon
  <1>3. Min({a, b}) \in {a, b} /\ IsMin(Min({a, b}))
    BY <1>2 DEF Min
  <1> QED BY <1>3

LEMMA ScanConfigKeeps ==
  HmiInv /\ ScanConfig => StepKeeps
  <1> SUFFICES ASSUME HmiInv, ScanConfig PROVE StepKeeps
    OBVIOUS
  <1>1. PICK messages \in Queued, late \in 0 .. 1 :
          /\ queue' = messages
          /\ QueueAdvance(queue', 0, late)
          /\ since' = since + late /\ since' <= MaxLag /\ now' = Later(late)
    BY DEF ScanConfig
  <1>a. PICK results \in Results : messages = SubSeq(results, 1, Min({QueueLen, Len(results)}))
    BY <1>1 DEF Queued
  <1>2. PICK n \in 0 .. MaxTokens : results \in [1 .. n -> Texts]
    BY <1>a DEF Results
  <1>3. results \in Seq(Texts) /\ Len(results) \in Nat
    <2>1. n \in Nat
      BY HmiConstants
    <2> QED BY <1>2, <2>1
  <1> DEFINE m == Min({QueueLen, Len(results)})
  <1>4. m \in Nat /\ m <= QueueLen /\ m <= Len(results)
    BY <1>3, LowerOfTwo, HmiConstants
  <1> HIDE DEF m
  <1>5. SubSeq(results, 1, m) \in Seq(Texts) /\ Len(SubSeq(results, 1, m)) = m
    <2>1. \A i \in 1 .. m : results[i] \in Texts
      BY <1>3, <1>4, ElementOfSeq
    <2> QED BY <1>4, <2>1, SubSeqProperties
  <1>6. queue' = SubSeq(results, 1, m)
    BY <1>1, <1>a DEF m
  <1>7. queue' \in Seq(Texts) /\ Len(queue') <= QueueLen /\ Len(queue') = m
    BY <1>4, <1>5, <1>6
  <1>8. 0 \in 0 .. Len(queue')
    BY <1>4, <1>7
  <1>9. loop_pc' = loop_pc /\ now' \in Clock /\ since' \in 0 .. MaxLag
    <2>1. late \in Clock /\ now \in Clock /\ since \in 0 .. MaxLag
      BY HmiConstants DEF Clock, HmiInv
    <2>2. loop_pc' = loop_pc
      BY DEF ScanConfig
    <2> QED BY <1>1, <2>1, <2>2, LaterValue, HmiConstants
  <1>10. RegistryInv' /\ QueueInv' /\ TurnInv'
    BY <1>1, <1>7, <1>8, <1>9, AdvanceKeeps
  <1>11. TurnStep
    BY DEF TurnStep
  <1> QED BY <1>9, <1>10, <1>11 DEF StepKeeps, HmiInv, Clock

LEMMA ConditionServiceKeeps ==
  HmiInv /\ ConditionService => StepKeeps
  <1> SUFFICES ASSUME HmiInv, ConditionService PROVE StepKeeps
    OBVIOUS
  <1>1. /\ text' = [id \in Conditions |-> IF id \in Expired THEN Nothing ELSE text[id]]
        /\ IF Expired = {} THEN UNCHANGED <<currently_shown, message>> ELSE RefreshDisplay(text')
        /\ loop_pc' = "confirms" /\ since' = 0 /\ now' = now /\ expire_at_ms' = expire_at_ms
    BY DEF ConditionService
  <1>2. /\ queue' = queue /\ queue_pos' = queue_pos /\ advance_at_ms' = advance_at_ms
        /\ confirm_active' = confirm_active
    BY DEF ConditionService, confirms
  <1>3. RegistryInv /\ Worded(text) /\ expire_at_ms \in [Conditions -> Clock] /\ now \in Clock
        /\ advance_at_ms \in Clock /\ CONFIG \in Conditions
    BY Slots DEF HmiInv, RegistryInv, QueueInv
  <1>4. QueueInv' /\ TurnInv'
    <2>1. QueueInv'
      BY <1>1, <1>2 DEF HmiInv, QueueInv, Clock
    <2>2. TurnInv'
      <3>1. Lag' = MaxLag /\ (loop_pc = "conditions" => Lag <= MaxLag) /\ 0 \in 0 .. MaxLag
        BY <1>1, HmiConstants DEF Lag, HmiInv
      <3>2. loop_pc = "conditions" /\ Lag \in Int /\ Past(advance_at_ms) \in Int
        BY <1>3, HmiConstants DEF ConditionService, Lag, Past, Clock, HmiInv
      <3>3. Past(advance_at_ms)' = Past(advance_at_ms)
        BY <1>1, <1>2 DEF Past
      <3> QED BY <1>1, <1>2, <3>1, <3>2, <3>3, HmiConstants DEF HmiInv, TurnInv
    <2> QED BY <2>1, <2>2
  <1>5. RegistryInv'
    <2>1. CASE Expired = {}
      <3>1. text' = text
        BY <1>1, <1>3, <2>1 DEF Worded
      <3>2. UNCHANGED registry
        BY <1>1, <2>1, <3>1 DEF registry
      <3> QED BY <1>3, <3>2, StandsKeeps
    <2>2. CASE Expired # {}
      <3>1. ROUTINE \notin Expired
        BY DEF Expired, HmiInv, RegistryInv
      <3>2. Worded(text')
        BY <1>1, <1>3, <3>1, Slots DEF Worded
      <3>3. /\ RefreshDisplay(text')
            /\ expire_at_ms' \in [Conditions -> Clock] /\ expire_at_ms'[ROUTINE] = 0
        BY <1>1, <1>3, <2>2 DEF RegistryInv
      <3> QED BY <1>3, <3>2, <3>3, RefreshKeeps
    <2> QED BY <2>1, <2>2
  <1>6. TurnStep
    <2> SUFFICES ASSUME confirm_active, text'[CONFIG] # text[CONFIG], expire_at_ms[CONFIG] >= ConfigMs
                 PROVE  /\ (now - expire_at_ms[CONFIG]) % MillisMod < MillisMod \div 2
                        /\ text'[CONFIG] = Nothing
      BY DEF TurnStep
    <2>1. CONFIG \in Expired /\ text'[CONFIG] = Nothing
      BY <1>1, <1>3
    <2>2. now >= expire_at_ms[CONFIG] /\ expire_at_ms[CONFIG] \in Clock
      BY <1>3, <2>1 DEF Expired
    <2>3. /\ \/ expire_at_ms[CONFIG] = advance_at_ms
             \/ expire_at_ms[CONFIG] = advance_at_ms - 1
             \/ advance_at_ms = 0 /\ expire_at_ms[CONFIG] = MillisMod - 1
          /\ Past(advance_at_ms) <= Lag \/ MillisMod - Past(advance_at_ms) <= ConfigMs
      BY DEF HmiInv, TurnInv
    <2>4. Lag \in Int /\ Lag <= MaxLag + MaxLag
      BY HmiConstants DEF HmiInv, Lag
    <2>5. Past(expire_at_ms[CONFIG]) < Half
      BY <1>3, <2>2, <2>3, <2>4, HmiConstants DEF Clock, Past
    <2> QED BY <1>3, <2>1, <2>2, <2>5, PastValue DEF Half
  <1>7. since' \in 0 .. MaxLag
    BY <1>1, HmiConstants
  <1> QED BY <1>1, <1>3, <1>4, <1>5, <1>6, <1>7 DEF StepKeeps, HmiInv, Clock

LEMMA ConfirmServiceKeeps ==
  HmiInv /\ ConfirmService => StepKeeps
  <1> SUFFICES ASSUME HmiInv, ConfirmService PROVE StepKeeps
    OBVIOUS
  <1>1. queue' = queue /\ loop_pc' = "conditions" /\ loop_pc = "confirms"
    BY DEF ConfirmService
  <1>2. /\ queue \in Seq(Texts) /\ Len(queue) <= QueueLen /\ queue_pos \in 0 .. Len(queue)
        /\ now \in Clock /\ advance_at_ms \in Clock /\ expire_at_ms[CONFIG] \in Clock
    BY Slots DEF HmiInv, QueueInv, RegistryInv
  <1>3. Lag = since + MaxLag /\ since \in 0 .. MaxLag
    BY <1>1 DEF HmiInv, Lag
  <1>4. (now - advance_at_ms) % MillisMod = Past(advance_at_ms)
    BY <1>2, PastValue
  <1>5. CASE AdvanceDue
    <2>1. PICK late \in 0 .. 1 : QueueAdvance(queue, queue_pos, late) /\ since' = late /\ now' = Later(late)
      BY <1>5 DEF ConfirmService
    <2>2. /\ RegistryInv' /\ QueueInv' /\ TurnInv'
          /\ text'[CONFIG] # Nothing => text'[CONFIG] = queue[queue_pos + 1]
      BY <1>1, <1>2, <2>1, AdvanceKeeps
    <2>3. now' \in Clock /\ since' \in 0 .. MaxLag
      <3>1. late \in Clock
        BY HmiConstants DEF Clock
      <3> QED BY <1>2, <2>1, <3>1, LaterValue, HmiConstants
    <2>4. confirm_active /\ Past(advance_at_ms) < Half
      BY <1>4, <1>5 DEF AdvanceDue, Half
    <2>5. /\ \/ expire_at_ms[CONFIG] = advance_at_ms
             \/ expire_at_ms[CONFIG] = advance_at_ms - 1
             \/ advance_at_ms = 0 /\ expire_at_ms[CONFIG] = MillisMod - 1
          /\ Past(advance_at_ms) <= Lag \/ MillisMod - Past(advance_at_ms) <= ConfigMs
      BY <2>4 DEF HmiInv, TurnInv
    <2>6. Past(expire_at_ms[CONFIG]) < Half
      BY <1>2, <1>3, <2>4, <2>5, HmiConstants DEF Clock, Past
    <2>7. (now - expire_at_ms[CONFIG]) % MillisMod < MillisMod \div 2
      BY <1>2, <2>6, PastValue DEF Half
    <2> QED BY <1>1, <2>2, <2>3, <2>7 DEF StepKeeps, TurnStep, HmiInv, Clock
  <1>6. CASE ~AdvanceDue
    <2>1. UNCHANGED <<now, registry, queue_pos, advance_at_ms, confirm_active>> /\ since' = 0
      BY <1>6 DEF ConfirmService
    <2>2. RegistryInv'
      BY <2>1, StandsKeeps DEF HmiInv
    <2>3. text' = text /\ expire_at_ms' = expire_at_ms /\ now' = now
      BY <2>1 DEF registry
    <2>4. QueueInv'
      BY <1>1, <2>1 DEF HmiInv, QueueInv, Clock
    <2>5. TurnInv'
      <3>1. confirm_active => Past(advance_at_ms) >= Half
        BY <1>2, <1>4, <1>6, HmiConstants DEF AdvanceDue, Half, Past, Clock
      <3>2. confirm_active => MillisMod - Past(advance_at_ms) <= ConfigMs
        BY <1>2, <1>3, <3>1, HmiConstants DEF HmiInv, TurnInv, Past, Clock
      <3>3. Past(advance_at_ms)' = Past(advance_at_ms)
        BY <2>1, <2>3 DEF Past
      <3> QED BY <2>1, <2>3, <3>2, <3>3 DEF HmiInv, TurnInv
    <2>6. since' \in 0 .. MaxLag
      BY <2>1, HmiConstants
    <2> QED BY <1>1, <2>2, <2>3, <2>4, <2>5, <2>6 DEF StepKeeps, TurnStep, HmiInv, Clock
  <1> QED BY <1>5, <1>6

(* A tick takes the clock no further past an advance than the time the        *)
(* service has not run.                                                       *)
LEMMA TickKeeps ==
  HmiInv /\ Tick => StepKeeps
  <1> SUFFICES ASSUME HmiInv, Tick PROVE StepKeeps
    OBVIOUS
  <1>1. /\ since < MaxLag /\ since' = since + 1 /\ now' = Later(1)
        /\ UNCHANGED registry /\ loop_pc' = loop_pc
        /\ queue' = queue /\ queue_pos' = queue_pos /\ advance_at_ms' = advance_at_ms
        /\ confirm_active' = confirm_active
    BY DEF Tick, confirms
  <1>2. now \in Clock /\ advance_at_ms \in Clock /\ since \in 0 .. MaxLag
    BY DEF HmiInv, QueueInv
  <1>3. /\ now' \in Clock
        /\ now' = IF now + 1 < MillisMod THEN now + 1 ELSE now + 1 - MillisMod
    <2>1. 1 \in Clock
      BY HmiConstants DEF Clock
    <2> QED BY <1>1, <1>2, <2>1, LaterValue
  <1>4. RegistryInv'
    BY <1>1, StandsKeeps DEF HmiInv
  <1>5. text' = text /\ expire_at_ms' = expire_at_ms
    BY <1>1 DEF registry
  <1>6. QueueInv'
    BY <1>1 DEF HmiInv, QueueInv, Clock
  <1>7. TurnInv'
    <2>1. Lag' = Lag + 1 /\ Lag \in Nat
      BY <1>1, <1>2, HmiConstants DEF Lag
    <2>2. Past(advance_at_ms)' = IF now' >= advance_at_ms THEN now' - advance_at_ms
                                                          ELSE now' - advance_at_ms + MillisMod
      BY <1>1 DEF Past
    <2>3. ASSUME Past(advance_at_ms) <= Lag \/ MillisMod - Past(advance_at_ms) <= ConfigMs
          PROVE  Past(advance_at_ms)' <= Lag' \/ MillisMod - Past(advance_at_ms)' <= ConfigMs
      <3> DEFINE later == now'
                 lag == Lag
      <3>1. later = IF now + 1 < MillisMod THEN now + 1 ELSE now + 1 - MillisMod
        BY <1>3
      <3>2. lag \in Nat /\ (Past(advance_at_ms) <= lag \/ MillisMod - Past(advance_at_ms) <= ConfigMs)
        BY <2>1, <2>3
      <3> HIDE DEF later, lag
      <3>3. LET p == IF later >= advance_at_ms THEN later - advance_at_ms
                                               ELSE later - advance_at_ms + MillisMod
            IN  p <= lag + 1 \/ MillisMod - p <= ConfigMs
        BY <1>2, <3>1, <3>2, HmiConstants DEF Past, Clock
      <3> QED BY <2>1, <2>2, <3>3 DEF later, lag
    <2> QED BY <1>1, <1>5, <2>3 DEF HmiInv, TurnInv
  <1>8. TurnStep
    BY <1>5 DEF TurnStep
  <1>9. since' \in 0 .. MaxLag
    BY <1>1, <1>2, HmiConstants
  <1> QED BY <1>1, <1>3, <1>4, <1>6, <1>7, <1>8, <1>9 DEF StepKeeps, HmiInv, Clock

LEMMA NextKeeps ==
  HmiInv /\ [Next]_vars => StepKeeps
  <1> SUFFICES ASSUME HmiInv, [Next]_vars PROVE StepKeeps
    OBVIOUS
  <1>1. CASE UNCHANGED vars
    <2>1. /\ UNCHANGED registry /\ UNCHANGED <<now, since>> /\ UNCHANGED <<confirms, loop_pc>>
      BY <1>1 DEF vars
    <2>2. RegistryInv' /\ text' = text /\ expire_at_ms' = expire_at_ms
      BY <2>1, StandsKeeps DEF HmiInv, registry
    <2> QED BY <2>1, <2>2, OtherSlotKeeps
  <1>2. CASE ShowRoutine \/ FaultShown \/ FaultCleared \/ ShowReject
    BY <1>2, OwnersKeep
  <1> QED BY <1>1, <1>2, ScanConfigKeeps, ConditionServiceKeeps, ConfirmServiceKeeps, TickKeeps DEF Next

-----------------------------------------------------------------------------
(* The theorems                                                               *)

THEOREM RegistryInvariant == Spec => []HmiInv
  <1>1. HmiInv /\ [Next]_vars => HmiInv'
    BY NextKeeps DEF StepKeeps
  <1> QED BY <1>1, InitHmi, PTL DEF Spec

THEOREM TypeCorrect == Spec => []TypeOK
  <1>1. HmiInv => TypeOK
    <2> SUFFICES ASSUME HmiInv PROVE TypeOK
      OBVIOUS
    <2>1. Worded(text) /\ currently_shown = Max(ActiveIn(text)) /\ message = text[currently_shown]
      BY DEF HmiInv, RegistryInv
    <2>2. currently_shown \in Conditions /\ message \in Texts
      BY <2>1, HighestActive
    <2> QED BY <2>1, <2>2 DEF HmiInv, RegistryInv, QueueInv, Worded, TypeOK
  <1> QED BY <1>1, RegistryInvariant, PTL

(* Whatever the owners set, clear and let expire in whatever order, the       *)
(* MESSAGE line shows the text of the highest active slot as it is now.       *)
THEOREM HighestIsShown == Spec => []MessageIsHighest
  <1>1. HmiInv => MessageIsHighest
    BY DEF HmiInv, RegistryInv, MessageIsHighest
  <1> QED BY <1>1, RegistryInvariant, PTL

(* Unless a config barcode restarts the sequence, a confirmation whose time   *)
(* lies on one side of the wrap of millis() leaves its slot only after that   *)
(* time, and for nothing but the next one of the same barcode, however late   *)
(* within the allowed lag the two services run.                               *)
THEOREM OneAtATime == Spec => ConfirmationsInTurn
  <1>1. HmiInv /\ [Next]_vars =>
          [ /\ confirm_active /\ text'[CONFIG] # text[CONFIG] /\ ~ScanConfig
            /\ expire_at_ms[CONFIG] >= ConfigMs
            => /\ (now - expire_at_ms[CONFIG]) % MillisMod < MillisMod \div 2
               /\ text'[CONFIG] # Nothing => text'[CONFIG] = queue[queue_pos + 1] ]_vars
    BY NextKeeps DEF StepKeeps, TurnStep
  <1> QED BY <1>1, RegistryInvariant, PTL DEF Spec, ConfirmationsInTurn
=============================================================================
