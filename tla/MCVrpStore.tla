------------------------------ MODULE MCVrpStore ------------------------------
(* Instances of VrpStore for TLC. *)
EXTENDS VrpStore, TLC

CONSTANTS x, y

KeysSymmetry == Permutations(Keys)

=============================================================================
