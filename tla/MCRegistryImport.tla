---------------------------- MODULE MCRegistryImport ----------------------------
(***************************************************************************)
(* Small instances of RegistryImport for TLC.                              *)
(***************************************************************************)
EXTENDS RegistryImport, TLC

CONSTANTS m1, m2

MCConfigs == {{}, {m1}, {m2}, {m1, m2}}

MCSymmetry == Permutations(Processes) \cup Permutations(Mappings)
===============================================================================
