--------------------------- MODULE PrinterLink_proofs ---------------------------
(* Theorems about PrinterLink, for every timeout, every pair of intervals,     *)
(* every number of requests that may be on their way, and for loop() and the   *)
(* callback running at the same time as well as by turns.                      *)
EXTENDS PrinterLink, SequenceTheorems, TLAPS

(* The history knows of every NORMAL that can still be formed, come in or be   *)
(* read: a request finds no byte from before it, and what is asked of a        *)
(* printer that is NORMAL, or answered by one, is not older than normal_since  *)
(* says.                                                                       *)
AllSince(replies) == \A i \in DOMAIN replies : replies[i] = "NORMAL" => normal_since

SinceInv ==
  /\ health = "NORMAL" /\ requests > 0 => normal_since
  /\ AllSince(transit) /\ AllSince(rx)

(* TypeOK in the groups that an action changes together. *)
WireType ==
  /\ health \in Health
  /\ requests \in Nat /\ transit \in Seq(Replies) /\ rx \in Seq(Replies)
  /\ requests + Len(transit) <= MaxRequests
  /\ normal_since \in BOOLEAN
PollType ==
  /\ bg_poll_state \in {"IDLE", "WAITING_REPLY"}
  /\ scan_poll \in {"none", "pre", "printing", "post"}
  /\ waited \in [Tasks -> 0 .. ReplyTimeout]
  /\ since_poll \in 0 .. PollInterval
  /\ {console_poll, printer_fault_active, normal_live} \subseteq BOOLEAN

LinkInv == WireType /\ PollType /\ SinceInv

LEMMA LinkConstants ==
  /\ ReplyTimeout \in Nat /\ PollInterval \in Nat /\ FaultPollInterval \in Nat
  /\ MaxRequests \in Nat /\ MaxRequests > 0 /\ ReplyTimeout > 0
BY LinkAssumption

LEMMA InitLink == Init => LinkInv
  <1> SUFFICES ASSUME Init PROVE LinkInv
    OBVIOUS
  <1>1. /\ << >> \in Seq(Replies) /\ Len(<< >>) = 0 /\ DOMAIN << >> = {}
    BY EmptySeq, LenProperties
  <1>2. WireType
    <2>1. requests = 0 /\ transit = << >> /\ rx = << >> /\ health \in Health /\ normal_since \in BOOLEAN
      BY DEF Init
    <2> QED BY <1>1, <2>1, LinkConstants DEF WireType
  <1>3. PollType
    <2>1. waited \in [Tasks -> 0 .. ReplyTimeout] /\ since_poll \in 0 .. PollInterval
      BY LinkConstants DEF Init
    <2> QED BY <2>1 DEF Init, PollType
  <1>4. SinceInv
    BY <1>1 DEF Init, SinceInv, AllSince
  <1> QED BY <1>2, <1>3, <1>4 DEF LinkInv

-----------------------------------------------------------------------------
(* The helpers                                                                *)

(* A request leaves nothing to read, and what is older than it and still on   *)
(* its way is known to the history.                                           *)
LEMMA RequestKeeps ==
  ASSUME LinkInv, NEW task \in Tasks, SendRequest(task), health' = health
  PROVE  WireType' /\ SinceInv' /\ waited' \in [Tasks -> 0 .. ReplyTimeout]
  <1>1. /\ << >> \in Seq(Replies) /\ DOMAIN << >> = {}
    BY EmptySeq, LenProperties
  <1>2. /\ requests' = requests + 1 /\ requests + Len(transit) < MaxRequests
        /\ rx' = << >> /\ transit' = transit /\ waited' = [waited EXCEPT ![task] = 0]
        /\ normal_since' = (health = "NORMAL" \/ (normal_since /\ (requests > 0 \/ transit # << >>)))
    BY DEF SendRequest
  <1>3. normal_since' \in BOOLEAN /\ (health = "NORMAL" => normal_since')
        /\ (normal_since /\ transit # << >> => normal_since')
    BY <1>2, Zenon
  <1>4. Len(transit) \in Nat /\ (transit = << >> => DOMAIN transit = {})
    BY <1>1, LenProperties DEF LinkInv, WireType
  <1>5. WireType'
    BY <1>1, <1>2, <1>3, <1>4, LinkConstants DEF LinkInv, WireType
  <1>6. AllSince(transit)'
    <2>1. ASSUME NEW i \in DOMAIN transit, transit[i] = "NORMAL" PROVE normal_since'
      BY <1>3, <1>4, <2>1 DEF LinkInv, SinceInv, AllSince
    <2> QED BY <1>2, <2>1 DEF AllSince
  <1>7. AllSince(rx)'
    BY <1>1, <1>2 DEF AllSince
  <1>8. SinceInv'
    BY <1>3, <1>6, <1>7 DEF SinceInv
  <1>9. waited' \in [Tasks -> 0 .. ReplyTimeout]
    BY <1>2, LinkConstants DEF LinkInv, PollType
  <1> QED BY <1>5, <1>8, <1>9

(* Taking the first of a line of replies leaves the others.                   *)
LEMMA FirstOf ==
  ASSUME NEW replies \in Seq(Replies), replies # << >>, AllSince(replies)
  PROVE  /\ Head(replies) \in Replies /\ Tail(replies) \in Seq(Replies)
         /\ Len(replies) \in Nat /\ Len(Tail(replies)) = Len(replies) - 1
         /\ Head(replies) = "NORMAL" => normal_since
         /\ AllSince(Tail(replies))
  <1>1. /\ Head(replies) = replies[1] /\ Head(replies) \in Replies
        /\ Len(replies) \in Nat /\ Len(replies) # 0 /\ DOMAIN replies = 1 .. Len(replies)
    BY HeadTailProperties, LenProperties, EmptySeq
  <1>2. /\ Tail(replies) \in Seq(Replies) /\ Len(Tail(replies)) = Len(replies) - 1
        /\ \A i \in 1 .. Len(Tail(replies)) : Tail(replies)[i] = replies[i + 1]
    BY HeadTailProperties
  <1>3. DOMAIN Tail(replies) = 1 .. Len(Tail(replies))
    BY <1>2, LenProperties
  <1>4. \A i \in DOMAIN Tail(replies) : i + 1 \in DOMAIN replies /\ Tail(replies)[i] = replies[i + 1]
    BY <1>1, <1>2, <1>3
  <1>5. 1 \in DOMAIN replies
    BY <1>1
  <1>6. Head(replies) = "NORMAL" => normal_since
    BY <1>1, <1>5 DEF AllSince
  <1>7. AllSince(Tail(replies))
    BY <1>4 DEF AllSince
  <1> QED BY <1>1, <1>2, <1>6, <1>7

(* A further reply that the history knows of.                                 *)
LEMMA OneMore ==
  ASSUME NEW replies \in Seq(Replies), NEW r \in Replies, AllSince(replies), r = "NORMAL" => normal_since
  PROVE  /\ Append(replies, r) \in Seq(Replies)
         /\ Len(replies) \in Nat /\ Len(Append(replies, r)) = Len(replies) + 1
         /\ AllSince(Append(replies, r))
  <1>1. /\ Append(replies, r) \in Seq(Replies)
        /\ Len(replies) \in Nat /\ Len(Append(replies, r)) = Len(replies) + 1
        /\ \A i \in 1 .. Len(replies) : Append(replies, r)[i] = replies[i]
        /\ Append(replies, r)[Len(replies) + 1] = r
    BY AppendProperties, LenProperties
  <1>2. DOMAIN Append(replies, r) = 1 .. Len(replies) + 1 /\ DOMAIN replies = 1 .. Len(replies)
    BY <1>1, LenProperties
  <1>3. \A i \in DOMAIN Append(replies, r) : i \in DOMAIN replies \/ i = Len(replies) + 1
    BY <1>1, <1>2
  <1>4. AllSince(Append(replies, r))
    BY <1>1, <1>2, <1>3 DEF AllSince
  <1> QED BY <1>1, <1>4

LEMMA ReplyKeeps ==
  ASSUME LinkInv, ReadReply, UNCHANGED <<health, normal_since>>
  PROVE  /\ WireType' /\ SinceInv' /\ waited' = waited
         /\ Head(rx) = "NORMAL" => normal_since
  <1>1. rx # << >> /\ rx' = Tail(rx) /\ requests' = requests /\ transit' = transit /\ waited' = waited
    BY DEF ReadReply
  <1>2. rx \in Seq(Replies) /\ AllSince(rx)
    BY DEF LinkInv, WireType, SinceInv
  <1>3. /\ Tail(rx) \in Seq(Replies) /\ AllSince(Tail(rx))
        /\ Head(rx) = "NORMAL" => normal_since
    BY <1>1, <1>2, FirstOf
  <1> QED BY <1>1, <1>3 DEF LinkInv, WireType, SinceInv, AllSince

(* What leaves the wire and the history alone.                                *)
LEMMA WireStands ==
  ASSUME LinkInv, UNCHANGED <<health, link, normal_since>>
  PROVE  WireType' /\ SinceInv'
BY DEF LinkInv, link, WireType, SinceInv, AllSince

-----------------------------------------------------------------------------
(* The actions                                                                *)

LEMMA AskersKeep ==
  ASSUME LinkInv, BgStart \/ ConsolePoll \/ ScanPoll \/ PrintSent
  PROVE  LinkInv'
  <1>1. "loop" \in Tasks /\ "scan" \in Tasks
    BY DEF Tasks
  <1>2. PICK task \in Tasks : SendRequest(task)
    BY <1>1 DEF BgStart, ConsolePoll, ScanPoll, PrintSent, TakeLink
  <1>3. health' = health
    BY DEF BgStart, ConsolePoll, ScanPoll, PrintSent, TakeLink
  <1>4. WireType' /\ SinceInv' /\ waited' \in [Tasks -> 0 .. ReplyTimeout]
    BY <1>2, <1>3, RequestKeeps
  <1>5. normal_live' \in BOOLEAN
    BY Zenon DEF BgStart, ConsolePoll, ScanPoll, PrintSent, LinkInv, PollType
  <1>6. /\ bg_poll_state' \in {"IDLE", "WAITING_REPLY"} /\ console_poll' \in BOOLEAN
        /\ scan_poll' \in {"none", "pre", "printing", "post"}
        /\ (since_poll' = 0 \/ since_poll' = since_poll) /\ printer_fault_active' = printer_fault_active
    <2>1. CASE BgStart
      BY <2>1 DEF BgStart, LinkInv, PollType
    <2>2. CASE ConsolePoll
      BY <2>2 DEF ConsolePoll, TakeLink, LinkInv, PollType
    <2>3. CASE ScanPoll
      BY <2>3 DEF ScanPoll, TakeLink, LinkInv, PollType
    <2>4. CASE PrintSent
      BY <2>4 DEF PrintSent, TakeLink, LinkInv, PollType
    <2> QED BY <2>1, <2>2, <2>3, <2>4
  <1>7. PollType'
    BY <1>4, <1>5, <1>6, LinkConstants DEF LinkInv, PollType
  <1> QED BY <1>4, <1>7 DEF LinkInv

LEMMA ReadersKeep ==
  ASSUME LinkInv, BgReply \/ ConsoleReply \/ PrePollNormal \/ PostPollNormal \/ ScanPollBad
  PROVE  LinkInv'
  <1>1. ReadReply /\ UNCHANGED <<health, normal_since>>
    BY DEF BgReply, ConsoleReply, PrePollNormal, PostPollNormal, ScanPollBad, history
  <1>2. WireType' /\ SinceInv' /\ waited' = waited
    BY <1>1, ReplyKeeps
  <1>3. printer_fault_active' \in BOOLEAN
    BY Zenon DEF BgReply, ConsoleReply, PrePollNormal, PostPollNormal, ScanPollBad, LinkInv, PollType
  <1>4. /\ bg_poll_state' \in {"IDLE", "WAITING_REPLY"} /\ console_poll' \in BOOLEAN
        /\ scan_poll' \in {"none", "pre", "printing", "post"}
        /\ since_poll' = since_poll /\ normal_live' \in BOOLEAN
    BY DEF BgReply, ConsoleReply, PrePollNormal, PostPollNormal, ScanPollBad, history, LinkInv, PollType
  <1>5. PollType'
    BY <1>2, <1>3, <1>4 DEF LinkInv, PollType
  <1> QED BY <1>2, <1>5 DEF LinkInv

LEMMA TimeoutsKeep ==
  ASSUME LinkInv, BgTimeout \/ ConsoleTimeout \/ ScanPollTimeout
  PROVE  LinkInv'
  <1>1. UNCHANGED <<health, link, normal_since>>
    BY DEF BgTimeout, ConsoleTimeout, ScanPollTimeout, history
  <1>2. PollType'
    BY DEF BgTimeout, ConsoleTimeout, ScanPollTimeout, history, LinkInv, PollType
  <1> QED BY <1>1, <1>2, WireStands DEF LinkInv

LEMMA OutsideKeeps ==
  ASSUME LinkInv, PrinterForms \/ ByteArrives \/ RequestLost \/ PrinterHealth \/ Tick \/ UNCHANGED vars
  PROVE  LinkInv'
  <1>1. Len(transit) \in Nat /\ transit \in Seq(Replies) /\ rx \in Seq(Replies)
    BY LenProperties DEF LinkInv, WireType
  <1>2. ASSUME UNCHANGED <<readers, printer_fault_active, normal_live>> PROVE PollType'
    BY <1>2 DEF readers, LinkInv, PollType
  <1>3. CASE PrinterForms
    <2>1. /\ health \in Replies /\ requests > 0 /\ requests' = requests - 1
          /\ transit' = Append(transit, health) /\ rx' = rx /\ UNCHANGED <<health, normal_since>>
      BY <1>3 DEF PrinterForms, LinkInv, WireType, Health, Replies, history
    <2>2. health = "NORMAL" => normal_since
      BY <2>1 DEF LinkInv, SinceInv
    <2>3. /\ transit' \in Seq(Replies) /\ Len(transit') = Len(transit) + 1
          /\ AllSince(Append(transit, health))
      BY <1>1, <2>1, <2>2, OneMore DEF LinkInv, SinceInv
    <2>4. WireType'
      BY <1>1, <2>1, <2>3, LinkConstants DEF LinkInv, WireType
    <2>5. SinceInv'
      BY <2>1, <2>2, <2>3 DEF LinkInv, SinceInv, AllSince
    <2> QED BY <1>2, <1>3, <2>4, <2>5 DEF LinkInv, PrinterForms, history
  <1>4. CASE ByteArrives
    <2>1. /\ transit # << >> /\ transit' = Tail(transit) /\ rx' = Append(rx, Head(transit))
          /\ UNCHANGED <<health, requests, normal_since>>
      BY <1>4 DEF ByteArrives, history
    <2>2. /\ Head(transit) \in Replies /\ Tail(transit) \in Seq(Replies)
          /\ Len(Tail(transit)) = Len(transit) - 1
          /\ Head(transit) = "NORMAL" => normal_since
          /\ AllSince(Tail(transit))
      BY <1>1, <2>1, FirstOf DEF LinkInv, SinceInv
    <2>3. rx' \in Seq(Replies) /\ AllSince(Append(rx, Head(transit)))
      BY <1>1, <2>1, <2>2, OneMore DEF LinkInv, SinceInv
    <2>4. WireType'
      BY <1>1, <2>1, <2>2, <2>3, LinkConstants DEF LinkInv, WireType
    <2>5. SinceInv'
      BY <2>1, <2>2, <2>3 DEF LinkInv, SinceInv, AllSince
    <2> QED BY <1>2, <1>4, <2>4, <2>5 DEF LinkInv, ByteArrives, history
  <1>5. CASE RequestLost
    <2>1. /\ requests > 0 /\ health # "NORMAL" /\ requests' = requests - 1
          /\ UNCHANGED <<health, transit, rx, normal_since>>
      BY <1>5 DEF RequestLost, history
    <2>2. WireType' /\ SinceInv'
      BY <1>1, <2>1, LinkConstants DEF LinkInv, WireType, SinceInv, AllSince
    <2> QED BY <1>2, <1>5, <2>2 DEF LinkInv, RequestLost, history
  <1>6. CASE PrinterHealth
    <2>1. /\ health' \in Health /\ UNCHANGED <<link, readers, printer_fault_active>>
      BY <1>6 DEF PrinterHealth
    <2>2. /\ normal_since' \in BOOLEAN /\ normal_live' \in BOOLEAN
          /\ (normal_since => normal_since') /\ (health' = "NORMAL" => normal_since')
      BY <1>6, Zenon DEF PrinterHealth
    <2>3. WireType' /\ SinceInv'
      BY <2>1, <2>2 DEF link, LinkInv, WireType, SinceInv, AllSince
    <2>4. PollType'
      BY <2>1, <2>2 DEF readers, LinkInv, PollType
    <2> QED BY <2>3, <2>4 DEF LinkInv
  <1>7. CASE Tick
    <2>1. UNCHANGED <<health, link, normal_since>>
      BY <1>7 DEF Tick, history
    <2>2. waited' \in [Tasks -> 0 .. ReplyTimeout] /\ since_poll' \in 0 .. PollInterval
      BY <1>7, LinkConstants DEF Tick, LinkInv, PollType
    <2>3. PollType'
      BY <1>7, <2>2 DEF Tick, history, LinkInv, PollType
    <2> QED BY <2>1, <2>3, WireStands DEF LinkInv
  <1>8. CASE UNCHANGED vars
    <2>1. UNCHANGED <<health, link, normal_since>> /\ UNCHANGED <<readers, printer_fault_active, normal_live>>
      BY <1>8 DEF vars, history
    <2> QED BY <1>2, <2>1, WireStands DEF LinkInv
  <1> QED BY <1>3, <1>4, <1>5, <1>6, <1>7, <1>8

-----------------------------------------------------------------------------
(* The theorems                                                               *)

(* The types, and the history of NORMAL, hold whatever the printer does.      *)
THEOREM LinkInvariant == Spec => []LinkInv
  <1>1. Init => LinkInv
    BY InitLink
  <1>2. LinkInv /\ [Next]_vars => LinkInv'
    BY AskersKeep, ReadersKeep, TimeoutsKeep, OutsideKeeps DEF Next, Loop, Console, Callback
  <1> QED BY <1>1, <1>2, PTL DEF Spec

(* Every variable of the link keeps its type, and never more than             *)
(* MaxRequests requests and replies are on their way.                         *)
THEOREM TypeCorrect == Spec => []TypeOK
  <1>1. LinkInv => TypeOK
    BY DEF LinkInv, WireType, PollType, TypeOK
  <1> QED BY <1>1, LinkInvariant, PTL

(* A label is sent only if the printer was NORMAL at some time since a        *)
(* request last found no other request and no reply on its way: the bytes     *)
(* that have come in are read away in front of every request, so that only    *)
(* what was on its way then can be taken for an answer.                       *)
THEOREM NoEarlierReplyPrints == Spec => PrintAfterNormal
  <1>1. LinkInv /\ [Next]_vars => [scan_poll = "pre" /\ scan_poll' = "printing" => normal_since]_vars
    <2> SUFFICES ASSUME LinkInv, Next, scan_poll = "pre", scan_poll' = "printing" PROVE normal_since
      OBVIOUS
    <2>1. PrePollNormal
      BY DEF Next, Loop, BgStart, BgReply, BgTimeout, ConsolePoll, Console, ConsoleReply, ConsoleTimeout,
             ScanPoll, Callback, PrintSent, PostPollNormal, ScanPollBad, ScanPollTimeout,
             PrinterForms, ByteArrives, RequestLost, PrinterHealth, Tick, readers
    <2>2. ReadReply /\ Head(rx) = "NORMAL" /\ UNCHANGED <<health, normal_since>>
      BY <2>1 DEF PrePollNormal
    <2> QED BY <2>2, ReplyKeeps
  <1> QED BY <1>1, LinkInvariant, PTL DEF Spec, PrintAfterNormal
=============================================================================
