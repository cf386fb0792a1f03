---------------------------- MODULE MCStateStore ----------------------------
(* Small instances of StateStore for TLC. *)
EXTENDS StateStore, TLC

CONSTANTS f1, f2, s1, s2, daemon, command

Users == Permutations({daemon, command})
=============================================================================
