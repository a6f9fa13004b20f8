---------------------------- MODULE MCUsbBinding ----------------------------
(* UsbBinding with two radios of distinct serials on two ports.            *)
EXTENDS UsbBinding

CONSTANTS A, B, P, Q

MCDevices == {A, B}
MCAppSerial == [d \in {A, B} |-> IF d = A THEN "a" ELSE "b"]
MCBootSerial == [d \in {A, B} |-> IF d = A THEN "x" ELSE "y"]
=============================================================================
