-------------------------- MODULE MCHandoffWindow --------------------------
(* Instances of HandoffWindow for TLC, with timeouts of two and three      *)
(* seconds in place of 90 to 120.                                          *)
EXTENDS HandoffWindow
=============================================================================
