--------------------------- MODULE MCConfigStore ---------------------------
(* A small instance of ConfigStore for TLC. *)
EXTENDS ConfigStore

CONSTANTS a, p, bad, o, e, k, s
============================================================================
