----------------------------- MODULE MCStorage -----------------------------
(***************************************************************************)
(* Small instances of the module Storage for TLC.                          *)
(***************************************************************************)
EXTENDS StorageProperties, TLC

CONSTANTS a, b

(* One key is in the file, the other is not. *)
FileOfA == <<a>>

ThreadSymmetry == Permutations(Threads)

=============================================================================
