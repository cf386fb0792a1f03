----------------------------- MODULE MCEventFeed -----------------------------
(* EventFeed with a subscriber queue of two events. *)
EXTENDS EventFeed
=============================================================================
