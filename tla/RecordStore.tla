----------------------------- MODULE RecordStore -----------------------------
(***************************************************************************)
(* What FlashTransaction takes the state file of app/state.py to be: one   *)
(* register of records.  A save replaces the record at once or leaves it   *)
(* as it is, and a process that dies changes nothing.  A power failure may *)
(* bring back an earlier record, but only one that was the record once.    *)
(***************************************************************************)
CONSTANT Records    \* the records a save may be called with

VARIABLES
    stored,     \* the record a load returns
    possible    \* the records a load may return after a power failure

Init == possible = {stored}

Save(record) ==
    /\ stored' = record
    /\ possible' = possible \cup {record}

\* The file system has made the present record permanent.
Settle ==
    /\ possible' = {stored}
    /\ UNCHANGED stored

PowerFails ==
    /\ stored' \in possible
    /\ possible' = {stored'}

Next == (\E record \in Records : Save(record)) \/ Settle \/ PowerFails

Spec == Init /\ [][Next]_<<stored, possible>>
=============================================================================
