-------------------------- MODULE MCVehicleRegistry --------------------------
(***************************************************************************)
(* VehicleRegistry for TLC: two names and two levels, one of which is no   *)
(* whole number of hundredths of a percent.                                *)
(***************************************************************************)
EXTENDS VehicleRegistry, TLC

MCLevel == {30 * PERCENT + 5, BATTERY_INITIAL}

RegistrySymmetry == Permutations(Proc) \cup Permutations(Name)
=============================================================================
