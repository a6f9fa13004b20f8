---------------------------- MODULE ByIdMigration ----------------------------
(***************************************************************************)
(* After a verified flash: has the radio's /dev/serial/by-id name changed, *)
(* and may the paused consumers get it back under the configured one?      *)
(* This is _manual_serial_by_id_migration() of app/flasher.py and the two  *)
(* lookups it polls.                                                       *)
(*                                                                         *)
(* udev on the host publishes names for the new endpoint in its own time.  *)
(* The add-on's /dev/serial/by-id and the Supervisor's hardware inventory  *)
(* are pictures of the host's names that are brought up to date later.     *)
(* ConsumerNames composes this with the transaction it is a part of.       *)
(***************************************************************************)
EXTENDS Integers, FiniteSets

CONSTANTS
    Names,      \* by-id names the radio's endpoint can have
    Previous,   \* the configured one
    Foreign     \* a by-id name of another device's endpoint

VARIABLES
    byId,       \* is the configured path a by-id name?
    stale,      \* may a picture still show what the host has removed?
    final,      \* the names the new firmware's descriptors lead to
    host,       \* those udev has published
    local,      \* names that point to the endpoint in the add-on's /dev
    inventory,  \* entries of the Supervisor, as <<name, its endpoint>>
    pc,
    outcome,    \* what becomes of the paused consumers
    current     \* the alias the operator is told, or none

viewVars == <<byId, stale, final, host, local, inventory>>

\* The radio has just come back: udev starts with no name for it, the pictures
\* are of now or, where stale, of before the flash.
MigrationInit ==
    /\ byId \in BOOLEAN
    /\ stale \in BOOLEAN
    /\ final \in SUBSET Names
    /\ host = {}
    /\ local \in {{}} \cup (IF stale THEN {{Previous}} ELSE {})
    /\ inventory \in {{<<Foreign, "other">>}}
                         \cup (IF stale THEN {{<<Foreign, "other">>, <<Previous, "radio">>}} ELSE {})
    /\ pc = "start"
    /\ outcome = "none"
    /\ current = {}

Publish(name) ==
    /\ name \in final \ host
    /\ host' = host \cup {name}
    /\ UNCHANGED <<byId, stale, final, local, inventory, pc, outcome, current>>

UpdateLocal ==
    /\ local # host
    /\ local' = host
    /\ UNCHANGED <<byId, stale, final, host, inventory, pc, outcome, current>>

UpdateInventory ==
    /\ inventory' = {<<Foreign, "other">>} \cup (host \X {"radio"})
    /\ inventory' # inventory
    /\ UNCHANGED <<byId, stale, final, host, local, pc, outcome, current>>

----------------------------------------------------------------------------
(* _manual_serial_by_id_migration() and _wait_for_serial_by_id_aliases()   *)

Ends(result, alias) == pc' = "done" /\ outcome' = result /\ current' = alias

\* Fault variant of Decide: no alias at all is taken for no change.
DecideEmptyIsSame(aliases) ==
    IF Previous \in aliases \/ aliases = {} THEN Ends("restore", {})
    ELSE IF Cardinality(aliases) = 1 THEN Ends("renamed", aliases)
    ELSE Ends("unresolved", {})

\* What the aliases mean: the configured one is still right, exactly one other
\* takes its place, or the operator has to find out.
Decide(aliases) ==
    IF Previous \in aliases THEN Ends("restore", {})
    ELSE IF Cardinality(aliases) = 1 THEN Ends("renamed", aliases)
    ELSE Ends("unresolved", {})

Start ==
    /\ pc = "start"
    /\ IF byId THEN pc' = "local" /\ UNCHANGED <<outcome, current>> ELSE Ends("restore", {})
    /\ UNCHANGED viewVars

\* by_id_paths_for_tty()
ReadLocal ==
    /\ pc = "local"
    /\ IF local # {} THEN Decide(local) ELSE pc' = "inventory" /\ UNCHANGED <<outcome, current>>
    /\ UNCHANGED viewVars

\* A directory or a tty that cannot be resolved has no names.
ReadLocalFails ==
    /\ pc = "local"
    /\ pc' = "inventory"
    /\ UNCHANGED <<viewVars, outcome, current>>

\* Fault variant of Listed: every serial device of the inventory is taken.
ListedAll == {entry[1] : entry \in inventory}

\* hardware_serial_by_id_paths_for_tty(): only what is bound to the endpoint.
Listed == {entry[1] : entry \in {e \in inventory : e[2] = "radio"}}

ReadInventory ==
    /\ pc = "inventory"
    /\ IF Listed # {} THEN Decide(Listed) ELSE pc' = "sleep" /\ UNCHANGED <<outcome, current>>
    /\ UNCHANGED viewVars

ReadInventoryFails ==
    /\ pc = "inventory"
    /\ pc' = "sleep"
    /\ UNCHANGED <<viewVars, outcome, current>>

\* Time is left for another poll.
PollAgain ==
    /\ pc = "sleep"
    /\ pc' = "local"
    /\ UNCHANGED <<viewVars, outcome, current>>

\* The 15 seconds are over: () or, after errors of both, FlashError; either
\* way there is no alias to go by.
GiveUp ==
    /\ pc = "sleep"
    /\ Decide({})
    /\ UNCHANGED viewVars

MigrationStep ==
    \/ \E name \in Names : Publish(name)
    \/ UpdateLocal \/ UpdateInventory
    \/ Start \/ ReadLocal \/ ReadLocalFails \/ ReadInventory \/ ReadInventoryFails
    \/ PollAgain \/ GiveUp
=============================================================================
