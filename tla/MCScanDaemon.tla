---------------------------- MODULE MCScanDaemon ----------------------------
(* Small instances of ScanDaemon for TLC. *)
EXTENDS ScanDaemon, TLC

CONSTANTS r1, r2, r3

\* Requests are interchangeable where no property follows one of them.
Symmetry == Permutations(Request)
=============================================================================
