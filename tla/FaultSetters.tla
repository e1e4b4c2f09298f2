------------------------------ MODULE FaultSetters ------------------------------
(***************************************************************************)
(* set_printer_fault(), set_scanner_fault() and window_pause_recompute()   *)
(* statement by statement, in an open inspection window.  loop() calls     *)
(* both setters, the scan callback raises the printer's fault.  Nothing in *)
(* src/ locks, and the scanner library's task may preempt loop() anywhere. *)
(*                                                                         *)
(* A call writes its source's flag, computes should_pause, tests it        *)
(* against window_currently_paused, and then pauses or resumes.  Times are *)
(* in ProductionCycle, where a call is one step.                           *)
(***************************************************************************)
EXTENDS Naturals

VARIABLES
  flagged,                \* window_paused_for_printer, window_paused_for_scanner
  window_currently_paused,
  pc,                     \* where each task is inside a setter
  call,                   \* the source and the value it was called with
  should_pause,           \* the local variable of each task
  \* history
  overlapped,             \* another call was under way during this task's call
  settled                 \* the last call that ended had run alone

vars == <<flagged, window_currently_paused, pc, call, should_pause, overlapped, settled>>

Tasks == {"loop", "callback"}
Sources == {"printer", "scanner"}
Faulted == \E s \in Sources : flagged[s]
Resting == \A t \in Tasks : pc[t] = "idle"

TypeOK ==
  /\ flagged \in [Sources -> BOOLEAN]
  /\ window_currently_paused \in BOOLEAN
  /\ pc \in [Tasks -> {"idle", "flag", "compute", "test", "pause", "resume"}]
  /\ call \in [Tasks -> Sources \X BOOLEAN]
  /\ {should_pause, overlapped} \subseteq [Tasks -> BOOLEAN]
  /\ settled \in BOOLEAN

(* enter_state(SYS_INSPECTION_WINDOW) has recomputed the pause. *)
Init ==
  /\ flagged \in [Sources -> BOOLEAN]
  /\ window_currently_paused = Faulted
  /\ pc = [t \in Tasks |-> "idle"]
  /\ call = [t \in Tasks |-> <<"printer", TRUE>>]
  /\ should_pause = [t \in Tasks |-> FALSE]
  /\ overlapped = [t \in Tasks |-> FALSE]
  /\ settled = TRUE
-----------------------------------------------------------------------------
Goto(t, label) == pc' = [pc EXCEPT ![t] = label]

(* The task leaves the setter. *)
Return(t) ==
  /\ Goto(t, "idle")
  /\ settled' = ~overlapped[t]

(* set_printer_fault(value) or set_scanner_fault(value) is called. *)
Call(t, source, value) ==
  /\ pc[t] = "idle"
  /\ Goto(t, "flag")
  /\ call' = [call EXCEPT ![t] = <<source, value>>]
  /\ overlapped' = [u \in Tasks |-> IF u = t THEN ~Resting ELSE overlapped[u] \/ pc[u] # "idle"]
  /\ UNCHANGED <<flagged, window_currently_paused, should_pause, settled>>

LoopCalls == \E source \in Sources, value \in BOOLEAN : Call("loop", source, value)

(* A failed poll before or after the print. *)
CallbackCalls == Call("callback", "printer", TRUE)

WriteFlag(t) ==
  /\ pc[t] = "flag"
  /\ Goto(t, "compute")
  /\ flagged' = [flagged EXCEPT ![call[t][1]] = call[t][2]]
  /\ UNCHANGED <<window_currently_paused, call, should_pause, overlapped, settled>>

Compute(t) ==
  /\ pc[t] = "compute"
  /\ Goto(t, "test")
  /\ should_pause' = [should_pause EXCEPT ![t] = Faulted]
  /\ UNCHANGED <<flagged, window_currently_paused, call, overlapped, settled>>

Test(t) ==
  /\ pc[t] = "test"
  /\ CASE should_pause[t] /\ ~window_currently_paused -> Goto(t, "pause") /\ UNCHANGED settled
       [] ~should_pause[t] /\ window_currently_paused -> Goto(t, "resume") /\ UNCHANGED settled
       [] OTHER -> Return(t)
  /\ UNCHANGED <<flagged, window_currently_paused, call, should_pause, overlapped>>

Pause(t) ==
  /\ pc[t] = "pause"
  /\ window_currently_paused' = TRUE
  /\ Return(t)
  /\ UNCHANGED <<flagged, call, should_pause, overlapped>>

Resume(t) ==
  /\ pc[t] = "resume"
  /\ window_currently_paused' = FALSE
  /\ Return(t)
  /\ UNCHANGED <<flagged, call, should_pause, overlapped>>

Setter(t) == WriteFlag(t) \/ Compute(t) \/ Test(t) \/ Pause(t) \/ Resume(t)

Next == LoopCalls \/ CallbackCalls \/ \E t \in Tasks : Setter(t)

Spec == Init /\ [][Next]_vars
-----------------------------------------------------------------------------
(* state_machine.h:29-31: "the pause starts on the FIRST fault to appear   *)
(* and only actually resumes once BOTH have cleared": with no setter under *)
(* way the window is paused exactly while a fault is flagged.              *)
PauseAgreesAtRest ==
  Resting => (window_currently_paused <=> Faulted)

(* Two calls that overlap may leave pause and flags apart, but the next    *)
(* call that runs alone, whichever its source, puts them right: each call  *)
(* recomputes the pause from both flags.                                   *)
LoneCallRepairs ==
  Resting /\ settled => (window_currently_paused <=> Faulted)
=============================================================================
