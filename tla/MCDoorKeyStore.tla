--------------------------- MODULE MCDoorKeyStore ---------------------------
(* DoorKeyStore for TLC: the operator's processes are interchangeable.     *)
EXTENDS DoorKeyStore, TLC

CliSymmetry == Permutations(Cli)
============================================================================
