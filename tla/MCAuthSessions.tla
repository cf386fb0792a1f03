--------------------------- MODULE MCAuthSessions ---------------------------
(* AuthSessions with two browsers behind one address and two passwords. *)
EXTENDS AuthSessions, TLC

Symmetry == Permutations(Browser) \union Permutations(Credential)
=============================================================================
