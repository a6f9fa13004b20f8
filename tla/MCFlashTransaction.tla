------------------------- MODULE MCFlashTransaction -------------------------
(***************************************************************************)
(* FlashTransaction on small instances: the radio and a second one.        *)
(***************************************************************************)
EXTENDS FlashTransaction

CONSTANTS cul, other

MCDevices == {cul, other}
MCPorts == {1, 2}

\* One radio with one serial for both personalities, as in the tests, and one
\* whose bootloader reports another serial than its application.
MCAppSerial == [d \in MCDevices |-> IF d = cul THEN "S1" ELSE "A2"]
MCBootSerial == [d \in MCDevices |-> IF d = cul THEN "S1" ELSE "B2"]

ASSUME SerialsAssumption == SerialsTellRadios

\* Cables are swapped twice; calls and processes fail up to three times; a
\* QEMU host has the radio alone, as its workaround requires.
MCScenarios ==
    {[qemu |-> FALSE, alone |-> FALSE, moves |-> 2, faults |-> 1],
     [qemu |-> FALSE, alone |-> FALSE, moves |-> 0, faults |-> 3],
     [qemu |-> TRUE,  alone |-> TRUE,  moves |-> 0, faults |-> 2]}

\* A QEMU host with a second radio.
QemuScenarios == {[qemu |-> TRUE, alone |-> FALSE, moves |-> 0, faults |-> 0]}
=============================================================================
