--------------------------- MODULE MCLibraryScan ---------------------------
(* Small instances of LibraryScan for TLC. *)
EXTENDS LibraryScan

CONSTANTS m1, m2, t1, d1, d2, de, en, live, dead, o1, o2, w, c

OneDir   == [p \in Path |-> d1]
TwoDirs  == [p \in Path |-> IF p = m2 THEN d2 ELSE d1]
OneSub   == [m \in Media |-> IF m = m1 THEN {t1} ELSE {}]
NoSubs   == [m \in Media |-> {}]
German   == {{de}}
AnyFilter == SUBSET Content
AllEvents == {"media", "sidecar", "mount", "filters", "edit", "mkdir",
              "cancel", "crash", "walk", "link", "remove", "store", "hook"}
=============================================================================
