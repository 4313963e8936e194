---------------------------- MODULE MCLedgerLock ----------------------------
(* Small instances of LedgerLock for TLC. *)
EXTENDS LedgerLock, TLC

Symmetry == Permutations(Procs)
=============================================================================
