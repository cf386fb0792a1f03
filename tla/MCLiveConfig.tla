---------------------------- MODULE MCLiveConfig ----------------------------
(* Small instances of LiveConfig for TLC. *)
EXTENDS LiveConfig

CONSTANTS nightly, hourly, sqlite, other, plain, file, port, alt, r1

\* Pairs of these differ in one, two or all of the settings that are compared.
Saved ==
    {[triggers |-> {nightly}, database |-> sqlite, logging |-> plain, server |-> port],
     [triggers |-> {nightly}, database |-> other, logging |-> plain, server |-> port],
     [triggers |-> {nightly, hourly}, database |-> other, logging |-> file, server |-> alt],
     [triggers |-> {}, database |-> sqlite, logging |-> file, server |-> alt]}
=============================================================================
