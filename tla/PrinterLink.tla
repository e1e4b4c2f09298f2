------------------------------- MODULE PrinterLink -------------------------------
(***************************************************************************)
(* The serial link to the label printer: the blocking poll of a scan and   *)
(* of the console's print command, and the background poll of loop(), with *)
(* the flag they leave in printer_fault_active.                            *)
(*                                                                         *)
(* A request is a few bytes and a reply is one; nothing says which request *)
(* a reply answers.  The printer is external: it forms its replies in      *)
(* order, each from its state at that time, a byte comes in some time      *)
(* after it was formed, and a printer that is not healthy forms its reply  *)
(* as late as it likes or not at all.                                      *)
(*                                                                         *)
(* The console is read in loop(); the scan callback is not called there.   *)
(* LoopRunsDuringScan says whether the two run at the same time or by      *)
(* turns.                                                                  *)
(***************************************************************************)
EXTENDS Integers, Sequences

CONSTANTS
  LoopRunsDuringScan, \* does loop() go on while the callback busy-waits?
  ReplyTimeout,       \* PRINTER_REPLY_TIMEOUT_MS
  PollInterval,       \* PRINTER_POLL_INTERVAL_MS
  FaultPollInterval,  \* PRINTER_FAULT_POLL_INTERVAL_MS
  MaxRequests         \* bound: requests and replies on their way

ASSUME LinkAssumption ==
  /\ LoopRunsDuringScan \in BOOLEAN
  /\ {ReplyTimeout, PollInterval, FaultPollInterval, MaxRequests} \subseteq Nat \ {0}
  /\ FaultPollInterval <= PollInterval

VARIABLES
  health,             \* of the printer: "NORMAL", "BAD" or "DEAD"
  requests,           \* how many are unanswered
  transit,            \* replies formed, not yet come in
  rx,                 \* replies not yet read
  bg_poll_state,      \* "IDLE" or "WAITING_REPLY"
  console_poll,       \* the console waits for a reply
  scan_poll,          \* what the callback is at: "none", "pre", "printing" or "post"
  waited,             \* time since loop() and the callback last asked, up to ReplyTimeout
  since_poll,         \* time since last_printer_poll_ms, up to PollInterval
  printer_fault_active,
  normal_live,        \* the printer was NORMAL since the poll before the print began
  normal_since        \* ... since a request last found no other on its way

link == <<requests, transit, rx>>
readers == <<bg_poll_state, console_poll, scan_poll, waited, since_poll>>
history == <<normal_live, normal_since>>
vars == <<health, link, readers, printer_fault_active, history>>

Health == {"NORMAL", "BAD", "DEAD"}
Replies == {"NORMAL", "BAD"}
Tasks == {"loop", "scan"}

TypeOK ==
  /\ health \in Health
  /\ requests \in Nat /\ transit \in Seq(Replies) /\ rx \in Seq(Replies)
  /\ requests + Len(transit) <= MaxRequests
  /\ bg_poll_state \in {"IDLE", "WAITING_REPLY"}
  /\ scan_poll \in {"none", "pre", "printing", "post"}
  /\ waited \in [Tasks -> 0 .. ReplyTimeout]
  /\ since_poll \in 0 .. PollInterval
  /\ {console_poll, printer_fault_active, normal_live, normal_since} \subseteq BOOLEAN

Init ==
  /\ health \in Health
  /\ requests = 0 /\ transit = << >> /\ rx = << >>
  /\ bg_poll_state = "IDLE" /\ console_poll = FALSE /\ scan_poll = "none"
  /\ waited = [t \in Tasks |-> 0] /\ since_poll = 0
  /\ printer_fault_active \in BOOLEAN
  /\ normal_live = FALSE /\ normal_since = FALSE
-----------------------------------------------------------------------------
(* Does loop()'s task run, and is it in loop() itself, not in the console? *)
LoopTaskRuns == scan_poll = "none" \/ LoopRunsDuringScan
LoopMayRun == LoopTaskRuns /\ ~console_poll

(* Definitions named Wrong... are used by nothing: each is the definition  *)
(* after it with a mistake the code could have, which a property must see. *)

(* Bytes that have already come in are left there. *)
WrongSendRequest(task) ==
  /\ requests + Len(transit) < MaxRequests
  /\ requests' = requests + 1
  /\ UNCHANGED <<transit, rx>>
  /\ waited' = [waited EXCEPT ![task] = 0]
  /\ normal_since' = (health = "NORMAL" \/ (normal_since /\ (requests > 0 \/ transit # << >>)))

(* Read away what has come in, then ask; what was asked before is still on *)
(* its way.                                                                *)
SendRequest(task) ==
  /\ requests + Len(transit) < MaxRequests
  /\ requests' = requests + 1
  /\ rx' = << >>
  /\ UNCHANGED transit
  /\ waited' = [waited EXCEPT ![task] = 0]
  /\ normal_since' = (health = "NORMAL" \/ (normal_since /\ (requests > 0 \/ transit # << >>)))

ReadReply ==
  /\ rx # << >>
  /\ rx' = Tail(rx)
  /\ UNCHANGED <<requests, transit, waited>>

TimedOut(task) == rx = << >> /\ waited[task] = ReplyTimeout
-----------------------------------------------------------------------------
(* loop() *)

(* A printer known to be faulty is not asked again. *)
WrongBgStart ==
  /\ LoopMayRun
  /\ scan_poll # "printing" /\ bg_poll_state = "IDLE"
  /\ ~printer_fault_active /\ since_poll >= PollInterval
  /\ since_poll' = 0
  /\ bg_poll_state' = "WAITING_REPLY"
  /\ SendRequest("loop")
  /\ UNCHANGED <<health, console_poll, scan_poll, printer_fault_active, normal_live>>

(* bg_poll_printer_status_start(), when the interval has elapsed and       *)
(* printer_tx_busy is not set                                              *)
BgStart ==
  /\ LoopMayRun
  /\ scan_poll # "printing" /\ bg_poll_state = "IDLE"
  /\ since_poll >= IF printer_fault_active THEN FaultPollInterval ELSE PollInterval
  /\ since_poll' = 0
  /\ bg_poll_state' = "WAITING_REPLY"
  /\ SendRequest("loop")
  /\ UNCHANGED <<health, console_poll, scan_poll, printer_fault_active, normal_live>>

(* bg_poll_printer_status_service() and the set_printer_fault() after it *)
BgReply ==
  /\ LoopMayRun /\ bg_poll_state = "WAITING_REPLY"
  /\ ReadReply
  /\ bg_poll_state' = "IDLE"
  /\ printer_fault_active' = (Head(rx) # "NORMAL")
  /\ UNCHANGED <<health, console_poll, scan_poll, since_poll, history>>

(* A poll without an answer leaves the flag as it is. *)
WrongBgTimeout ==
  /\ LoopMayRun /\ bg_poll_state = "WAITING_REPLY"
  /\ TimedOut("loop")
  /\ bg_poll_state' = "IDLE"
  /\ UNCHANGED <<health, link, console_poll, scan_poll, waited, since_poll,
                 printer_fault_active, history>>

BgTimeout ==
  /\ LoopMayRun /\ bg_poll_state = "WAITING_REPLY"
  /\ TimedOut("loop")
  /\ bg_poll_state' = "IDLE"
  /\ printer_fault_active' = TRUE
  /\ UNCHANGED <<health, link, console_poll, scan_poll, waited, since_poll, history>>
-----------------------------------------------------------------------------
(* poll_printer_status() and its callers *)

(* Whatever the background poll sent is superseded. *)
TakeLink(task) ==
  /\ bg_poll_state' = "IDLE"
  /\ SendRequest(task)
  /\ UNCHANGED <<health, since_poll, printer_fault_active>>

ConsolePoll ==
  /\ LoopMayRun
  /\ console_poll' = TRUE
  /\ TakeLink("loop")
  /\ UNCHANGED <<scan_poll, normal_live>>

(* The busy wait ends with the first byte that comes in. *)
ConsoleReply ==
  /\ LoopTaskRuns /\ console_poll
  /\ ReadReply
  /\ console_poll' = FALSE
  /\ printer_fault_active' = (Head(rx) # "NORMAL")
  /\ UNCHANGED <<health, bg_poll_state, scan_poll, since_poll, history>>

ConsoleTimeout ==
  /\ LoopTaskRuns /\ console_poll /\ TimedOut("loop")
  /\ console_poll' = FALSE
  /\ printer_fault_active' = TRUE
  /\ UNCHANGED <<health, link, bg_poll_state, scan_poll, waited, since_poll, history>>

(* Gate 0b lets a scan through only while no fault is flagged. *)
ScanPoll ==
  /\ scan_poll = "none" /\ ~printer_fault_active
  /\ console_poll => LoopRunsDuringScan
  /\ scan_poll' = "pre"
  /\ TakeLink("scan")
  /\ normal_live' = (health = "NORMAL")
  /\ UNCHANGED console_poll

(* Gate 2 passes, and the label is sent; or gate 3 turns the scan away.    *)
PrePollNormal ==
  /\ scan_poll = "pre"
  /\ ReadReply /\ Head(rx) = "NORMAL"
  /\ scan_poll' \in {"printing", "none"}
  /\ normal_live' = FALSE
  /\ UNCHANGED <<health, bg_poll_state, console_poll, since_poll, printer_fault_active,
                 normal_since>>

(* The label is out and the printer is asked again. *)
PrintSent ==
  /\ scan_poll = "printing"
  /\ scan_poll' = "post"
  /\ TakeLink("scan")
  /\ UNCHANGED <<console_poll, normal_live>>

PostPollNormal ==
  /\ scan_poll = "post"
  /\ ReadReply /\ Head(rx) = "NORMAL"
  /\ scan_poll' = "none"
  /\ UNCHANGED <<health, bg_poll_state, console_poll, since_poll, printer_fault_active,
                 history>>

ScanPollBad ==
  /\ scan_poll \in {"pre", "post"}
  /\ ReadReply /\ Head(rx) = "BAD"
  /\ scan_poll' = "none"
  /\ printer_fault_active' = TRUE
  /\ normal_live' = FALSE
  /\ UNCHANGED <<health, bg_poll_state, console_poll, since_poll, normal_since>>

ScanPollTimeout ==
  /\ scan_poll \in {"pre", "post"} /\ TimedOut("scan")
  /\ scan_poll' = "none"
  /\ printer_fault_active' = TRUE
  /\ normal_live' = FALSE
  /\ UNCHANGED <<health, link, bg_poll_state, console_poll, waited, since_poll,
                 normal_since>>
-----------------------------------------------------------------------------
(* The printer and time *)

PrinterForms ==
  /\ requests > 0 /\ health # "DEAD"
  /\ transit' = Append(transit, health)
  /\ requests' = requests - 1
  /\ UNCHANGED <<health, rx, readers, printer_fault_active, history>>

ByteArrives ==
  /\ transit # << >>
  /\ rx' = Append(rx, Head(transit))
  /\ transit' = Tail(transit)
  /\ UNCHANGED <<health, requests, readers, printer_fault_active, history>>

RequestLost ==
  /\ requests > 0 /\ health # "NORMAL"
  /\ requests' = requests - 1
  /\ UNCHANGED <<health, transit, rx, readers, printer_fault_active, history>>

PrinterHealth ==
  /\ \E h \in Health \ {health} : health' = h
  /\ normal_since' = (normal_since \/ health' = "NORMAL")
  /\ normal_live' = (normal_live \/ (scan_poll = "pre" /\ health' = "NORMAL"))
  /\ UNCHANGED <<link, readers, printer_fault_active>>

(* Who waits for a reply and runs. *)
Waiting ==
  {t \in Tasks : IF t = "scan" THEN scan_poll \in {"pre", "post"}
                               ELSE LoopTaskRuns /\ (console_poll \/ bg_poll_state = "WAITING_REPLY")}

(* A healthy printer's answer comes in within the timeout, and who waits   *)
(* reads a byte that is there, or gives up, at once.                       *)
Tick ==
  /\ \A t \in Waiting :
       /\ rx = << >> /\ ~TimedOut(t)
       /\ ~(waited[t] = ReplyTimeout - 1 /\ health = "NORMAL" /\ (requests > 0 \/ transit # << >>))
  /\ waited' = [t \in Tasks |-> IF waited[t] < ReplyTimeout THEN waited[t] + 1 ELSE waited[t]]
  /\ since_poll' = IF since_poll < PollInterval THEN since_poll + 1 ELSE since_poll
  /\ UNCHANGED <<health, link, bg_poll_state, console_poll, scan_poll, printer_fault_active,
                 history>>
-----------------------------------------------------------------------------
Loop == BgStart \/ BgReply \/ BgTimeout
Console == ConsoleReply \/ ConsoleTimeout
Callback == PrePollNormal \/ PrintSent \/ PostPollNormal \/ ScanPollBad \/ ScanPollTimeout

Next ==
  \/ Loop \/ ConsolePoll \/ Console \/ ScanPoll \/ Callback
  \/ PrinterForms \/ ByteArrives \/ RequestLost \/ PrinterHealth \/ Tick

Spec == Init /\ [][Next]_vars

(* loop() runs forever, a busy wait ends, time passes; a request is        *)
(* answered or lost in the end and a byte comes in.                        *)
FairSpec ==
  /\ Spec
  /\ WF_vars(Loop) /\ WF_vars(Console) /\ WF_vars(Callback)
  /\ WF_vars(PrinterForms \/ RequestLost) /\ WF_vars(ByteArrives) /\ SF_vars(Tick)
-----------------------------------------------------------------------------
(* Safety *)

(* What is left of "stale/misattributed status data", which the reading    *)
(* away in front of each request is there to keep out: a label is sent     *)
(* only if the printer has been NORMAL at some time since a request last   *)
(* found no other request, and no reply, on its way.  A reply that had     *)
(* come in before then never lets a label through.                         *)
PrintAfterNormal ==
  [][scan_poll = "pre" /\ scan_poll' = "printing" => normal_since]_vars

(* "The live poll immediately before printing (Gate #2) remains the actual *)
(* safety authority": the printer was NORMAL since that poll began, as any *)
(* reply from its request on "belongs to US".  A reply still on its way    *)
(* from an abandoned poll, of a printer that was NORMAL then, says it too. *)
PrintAfterLiveNormal ==
  [][scan_poll = "pre" /\ scan_poll' = "printing" => normal_live]_vars
-----------------------------------------------------------------------------
(* Liveness *)

(* A printer that no longer answers is flagged, whether or not anybody     *)
(* scans, and however often a scan or the console takes the link back.     *)
DeadPrinterFlagged == <>[](health = "DEAD") => <>[]printer_fault_active

(* A printer that is healthy for good is never held faulty for good,       *)
(* although neither the poll before a print nor the one after it ever      *)
(* clears the flag, and polls of two tasks take each other's replies.      *)
RecoveryNoticed == <>[](health = "NORMAL") => []<>~printer_fault_active
=============================================================================
