--------------------------- MODULE MCDeviceState ---------------------------
(* Instances of DeviceState for TLC: any document to begin with, and two   *)
(* kills or power failures.                                                *)
EXTENDS DeviceState
=============================================================================
