-------------------------------- MODULE ShiftBook --------------------------------
(***************************************************************************)
(* What the shift books promise while the power lasts: each window enters  *)
(* the running page when it closes and never before, and a page is turned  *)
(* whole, with all its windows and only between windows.  What survives a  *)
(* power failure is not this module's (ShiftLedger!NothingLost).           *)
(***************************************************************************)
EXTENDS Naturals, Sequences

VARIABLES
  powered,                \* the power has not failed yet
  open,                   \* a window is open
  opened,                 \* how many windows have been opened
  running,                \* the windows of the running page
  pages                   \* the pages turned

vars == <<powered, open, opened, running, pages>>

Init ==
  /\ powered = TRUE
  /\ open = FALSE
  /\ opened = 0
  /\ running = {}
  /\ pages = << >>

OpenWindow ==
  /\ powered /\ ~open
  /\ open' = TRUE
  /\ opened' = opened + 1
  /\ UNCHANGED <<powered, running, pages>>

CloseWindow ==
  /\ powered /\ open
  /\ open' = FALSE
  /\ running' = running \cup {opened}
  /\ UNCHANGED <<powered, opened, pages>>

TurnPage ==
  /\ powered /\ ~open
  /\ pages' = Append(pages, running)
  /\ running' = {}
  /\ UNCHANGED <<powered, open, opened>>

(* resetdata: the pages turned so far are thrown away. *)
Wipe ==
  /\ powered
  /\ pages' = << >>
  /\ UNCHANGED <<powered, open, opened, running>>

(* The promise ends. *)
PowerFails ==
  /\ powered
  /\ powered' = FALSE
  /\ open' = FALSE /\ opened' = 0 /\ running' = {} /\ pages' = << >>

Next == OpenWindow \/ CloseWindow \/ TurnPage \/ Wipe \/ PowerFails

Spec == Init /\ [][Next]_vars
=============================================================================
