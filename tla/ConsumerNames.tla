---------------------------- MODULE ConsumerNames ----------------------------
(***************************************************************************)
(* A flash as its consumers see it, from names to names: which of them are *)
(* stopped depends on how their options name the radio (ConsumerMatching), *)
(* and whether they get it back depends on the name the new firmware has   *)
(* (ByIdMigration).  This is the order of flash() in app/flasher.py.       *)
(***************************************************************************)
EXTENDS ConsumerMatching

CONSTANTS Names, Previous, Foreign

ASSUME NamesAssumption == IsFiniteSet(Names) /\ Previous \in Names /\ Foreign \notin Names

VARIABLES byId, stale, final, host, local, inventory, poll, outcome, current

Migration == INSTANCE ByIdMigration WITH pc <- poll

migrationVars == <<byId, stale, final, host, local, inventory, poll, outcome, current>>
vars == <<matchVars, migrationVars>>

Init == MatchInit /\ Migration!MigrationInit

\* The migration is looked at once V has answered, before the transaction ends.
Migrate ==
    /\ pc = "verified"
    /\ Migration!MigrationStep
    /\ UNCHANGED matchVars

\* A version check, an LED or a diagnostics session looks for no names.
SessionEnds ==
    /\ pc = "body"
    /\ Return(FALSE)
    /\ UNCHANGED migrationVars

\* retain_addons() was called for every outcome but "restore".
Restore ==
    /\ pc = "verified"
    /\ poll = "done"
    /\ Return(outcome # "restore")
    /\ UNCHANGED migrationVars

Terminated == pc = "done" /\ UNCHANGED vars

Next ==
    \/ poll = "start" /\ MatchStep /\ UNCHANGED migrationVars
    \/ SessionEnds
    \/ Migrate
    \/ Restore
    \/ Terminated

Spec == Init /\ [][Next]_vars

----------------------------------------------------------------------------
(* Properties                                                              *)

\* No consumer that names the radio - by whichever path, in whichever place of
\* a list - keeps it in the body or reopens it before V.  The one that can is
\* an add-on that, while a recovery begins, names by another path a node that
\* is gone: _same_device_path() has nothing to resolve then.
NoReaderIsMissed == pc = "body" => \A a \in Readers : Unrecognisable(a)

\* README: "If a verified flash changes a serial-by-id alias, it retains every
\* matching consumer in the stopped state": one that was stopped and runs again
\* under the configured by-id name finds the radio there, as long as neither
\* picture still shows what the host has removed.
RestoredUnderTheRightName ==
    pc = "done" /\ outcome # "none" /\ byId /\ ~stale =>
        \A a \in matches \cap running : Previous \in final

\* The alias the operator is told to configure is one the host has published
\* for this radio, however the two pictures lag and whatever else is attached.
NamedAliasIsCurrent == current \subseteq host
=============================================================================
