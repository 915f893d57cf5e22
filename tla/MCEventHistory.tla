--------------------------- MODULE MCEventHistory ---------------------------
(* EventHistory with pages of at most two events.                          *)
EXTENDS EventHistory
=============================================================================
