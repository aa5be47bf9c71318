----------------------------- MODULE MCThermal -----------------------------
(* Small instances of ThermalMachine for TLC: one temperature for each band *)
(* that the seven thresholds leave.                                         *)
EXTENDS ThermalMachine

Bands == 0..7
SomeBands == {0, 3, 5, 7}
============================================================================
