-------------------------- MODULE MCSerialSession --------------------------
(* Instances of SerialSession for TLC: requests of every kind behind each  *)
(* other on one radio.                                                     *)
EXTENDS SerialSession
=============================================================================
