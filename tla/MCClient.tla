------------------------------ MODULE MCClient ------------------------------
(***************************************************************************)
(* Small instances of the module Client for TLC.                           *)
(***************************************************************************)
EXTENDS Client, TLC

ClientSymmetry == Permutations(Clients)

=============================================================================
