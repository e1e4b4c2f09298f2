--------------------------- MODULE MCProductionCycle ---------------------------
(* ProductionCycle on instances small enough for TLC. *)
EXTENDS ProductionCycle

MCWindow == {2}
MCCycleValues == {1}
MCCavityValues == {1, 2}
MCTwoCavities == {2}
=============================================================================
