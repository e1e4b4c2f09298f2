------------------------- MODULE InspectionStopwatch -------------------------
(***************************************************************************)
(* What the production state machine promises, without its clock           *)
(* arithmetic: an inspection window is a stopwatch that runs only while no *)
(* fault is active.  It ends when it has run for its whole duration or     *)
(* when every cavity has its label, never during an outage for any other   *)
(* reason; then the mold cycles and the next window opens by itself.       *)
(* ProductionCycle implements this specification.                          *)
(***************************************************************************)
EXTENDS Integers

CONSTANTS RunLimit,        \* no phase runs this long, and no duration exceeds it
          WindowValues,    \* durations an inspection window may be given
          CycleValues,     \* durations a mold cycle may be given
          CavityValues     \* cavity counts the mold may be given

VARIABLES phase,     \* "off" until the first label, then "open" and "rest" in turn
          run,       \* time counted so far in this phase
          count,     \* labels printed in this window
          faulted,   \* a printer or scanner fault is known
          window, cycle, cavity    \* the limits in force

vars == <<phase, run, count, faulted, window, cycle, cavity>>

Init ==
  /\ phase = "off"
  /\ run = 0
  /\ count = 0
  /\ faulted \in BOOLEAN
  /\ window \in WindowValues
  /\ cycle \in CycleValues
  /\ cavity \in CavityValues

(* The first label since power-on opens the first window. *)
Start ==
  /\ phase = "off"
  /\ phase' = "open"
  /\ count' = 1
  /\ UNCHANGED <<run, faulted, window, cycle, cavity>>

AddLabel ==
  /\ phase = "open"
  /\ count < cavity
  /\ count' = count + 1
  /\ UNCHANGED <<phase, run, faulted, window, cycle, cavity>>

(* One unit of time.  The stopwatch of an open window stands still while a *)
(* fault is active; a mold cycle cannot be stopped.                        *)
Tick ==
  /\ phase = "rest" \/ (phase = "open" /\ ~faulted)
  /\ run + 1 < RunLimit
  /\ run' = run + 1
  /\ UNCHANGED <<phase, count, faulted, window, cycle, cavity>>

FaultChange ==
  /\ faulted' \in BOOLEAN
  /\ UNCHANGED <<phase, run, count, window, cycle, cavity>>

Close ==
  /\ phase = "open"
  /\ \/ ~faulted /\ run >= window
     \/ count >= cavity
  /\ phase' = "rest"
  /\ run' = 0
  /\ count' = 0
  /\ UNCHANGED <<faulted, window, cycle, cavity>>

Reopen ==
  /\ phase = "rest"
  /\ run >= cycle
  /\ phase' = "open"
  /\ run' = 0
  /\ UNCHANGED <<count, faulted, window, cycle, cavity>>

Reconfigure ==
  /\ window' \in WindowValues
  /\ cycle' \in CycleValues
  /\ cavity' \in CavityValues
  /\ UNCHANGED <<phase, run, count, faulted>>

Next ==
  Start \/ AddLabel \/ Tick \/ FaultChange \/ Close \/ Reopen \/ Reconfigure

Spec == Init /\ [][Next]_vars
=============================================================================
