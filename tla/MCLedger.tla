------------------------------ MODULE MCLedger ------------------------------
(***************************************************************************)
(* A small instance of the ledger and its integrity sessions for TLC.      *)
(***************************************************************************)
EXTENDS Verifier, TLC

CONSTANTS v1, v2, ntfs, exfat

Symmetry == Permutations(Sessions) \cup Permutations(FsTypes)
=============================================================================
