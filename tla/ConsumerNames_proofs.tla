------------------------- MODULE ConsumerNames_proofs -------------------------
(***************************************************************************)
(* Proofs about ConsumerNames, for any set of add-ons and any set of       *)
(* names: which consumers a transaction stops, and under which name they   *)
(* get the radio back.                                                     *)
(***************************************************************************)
EXTENDS ConsumerNames, TLAPS

----------------------------------------------------------------------------
(* The inductive invariant                                                 *)

\* The options of the add-ons and how far the transaction is.
ConfigInv ==
    /\ kind \in [Addons -> Kinds]
    /\ paths \in [Addons -> SUBSET Spellings]
    /\ \A a \in Addons : kind[a] # "wmbusmeters" => "auto" \notin paths[a]
    /\ running \subseteq Addons
    /\ matches \subseteq Addons
    /\ recovery \in BOOLEAN /\ node \in BOOLEAN
    /\ pc \in {"idle", "scan", "stop", "body", "verified", "done"}

\* An add-on that the scan may pass by.
Harmless(a) == ~Coordinated(a) \/ ~NamesRadio(a) \/ Unrecognisable(a)

\* The scan sees one state of the add-ons and of the node, and passes by the
\* harmless ones only; what it found is stopped until the transaction ends.
ScanInv ==
    /\ pc \in {"idle", "scan", "stop"} => node = ~recovery
    /\ pc = "scan" => answer = running /\ \A a \in running \ (todo \cup matches) : Harmless(a)
    /\ pc = "stop" => \A a \in running \ matches : Harmless(a)
    /\ pc \in {"body", "verified"} => running \cap matches = {} /\ \A a \in running : Harmless(a)

\* The two pictures show what the host has published, and the configured name
\* besides if they may be stale.
Shown == host \cup (IF stale THEN {Previous} ELSE {})

ViewInv ==
    /\ stale \in BOOLEAN
    /\ host \subseteq final
    /\ local \subseteq Shown
    /\ \A entry \in inventory : entry[2] = "radio" => entry[1] \in Shown

\* What the migration decides, and what the transaction makes of it.
OutcomeInv ==
    /\ current \subseteq host
    /\ outcome = "restore" /\ byId /\ ~stale => Previous \in host
    /\ poll # "done" => outcome = "none"
    /\ pc \notin {"verified", "done"} => poll = "start"
    /\ pc = "done" /\ outcome \notin {"none", "restore"} => running \cap matches = {}

IInv == ConfigInv /\ ScanInv /\ ViewInv /\ OutcomeInv

LEMMA InitHolds == Init => IInv
<1> SUFFICES ASSUME Init
             PROVE  IInv
  OBVIOUS
<1>1. ConfigInv
  <2>1. recovery \in BOOLEAN /\ node \in BOOLEAN
    BY Zenon DEF Init, MatchInit
  <2>2. /\ kind \in [Addons -> Kinds]
        /\ paths \in [Addons -> SUBSET Spellings]
        /\ \A a \in Addons : kind[a] # "wmbusmeters" => "auto" \notin paths[a]
    BY DEF Init, MatchInit
  <2>3. running \subseteq Addons /\ matches \subseteq Addons /\ pc = "idle"
    BY DEF Init, MatchInit
  <2>4. QED
    BY <2>1, <2>2, <2>3 DEF ConfigInv
<1>2. ScanInv
  BY DEF Init, MatchInit, ScanInv
<1>3. ViewInv
  <2>1. stale \in BOOLEAN /\ host = {} /\ local \subseteq Shown
    BY DEF Init, Migration!MigrationInit, Shown
  <2>2. ASSUME NEW entry \in inventory, entry[2] = "radio"
        PROVE  entry[1] \in Shown
    <3>1. entry # <<Foreign, "other">>
      BY <2>2
    <3>2. entry = <<Previous, "radio">> /\ stale
      BY <3>1 DEF Init, Migration!MigrationInit
    <3>3. QED
      BY <3>2 DEF Shown
  <2>3. QED
    BY <2>1, <2>2 DEF ViewInv
<1>4. OutcomeInv
  BY DEF Init, MatchInit, Migration!MigrationInit, OutcomeInv
<1>5. QED
  BY <1>1, <1>2, <1>3, <1>4 DEF IInv

\* Whatever changes in the transaction, options stay as they are.
LEMMA HarmlessStays ==
    ASSUME UNCHANGED configVars
    PROVE  \A a : Harmless(a) <=> Harmless(a)'
  BY DEF configVars, Harmless, Coordinated, NamesRadio, Unrecognisable

\* An entry of the scan that is not matched is harmless.
LEMMA EntryIsHarmless ==
    ASSUME ConfigInv, ScanInv, NEW a \in Addons, Entry(a), a \in running, a \notin matches'
    PROVE  Harmless(a)
<1>1. answer = running /\ node = ~recovery
  BY DEF ScanInv, Entry
<1>2. a \notin listed /\ ~UsesDevice(a)
  BY <1>1 DEF Entry
<1>3. CASE kind[a] = "other"
  BY <1>2, <1>3 DEF Harmless, Coordinated
<1>4. CASE kind[a] = "wmbusmeters"
  <2>1. \A path \in paths[a] : path # "auto" /\ path # "selected" /\ ~(path = "alias" /\ node)
    BY <1>2, <1>4 DEF UsesDevice, SameDevicePath
  <2>2. QED
    BY <1>1, <1>2, <2>1 DEF Harmless, NamesRadio, Unrecognisable, ConfigInv
<1>5. CASE kind[a] = "max2mqtt"
  <2>1. \A path \in paths[a] : path # "selected" /\ ~(path = "alias" /\ node)
    BY <1>2, <1>5 DEF UsesDevice, SameDevicePath
  <2>2. "auto" \notin paths[a]
    BY <1>5 DEF ConfigInv
  <2>3. QED
    BY <1>1, <1>2, <1>5, <2>1, <2>2 DEF Harmless, NamesRadio, Unrecognisable, ConfigInv
<1>6. QED
  BY <1>3, <1>4, <1>5 DEF ConfigInv, Kinds

\* The steps of the composition.
LEMMA Cases ==
    ASSUME [Next]_vars
    PROVE  \/ poll = "start" /\ MatchStep /\ UNCHANGED migrationVars
           \/ SessionEnds
           \/ Migrate
           \/ Restore
           \/ UNCHANGED vars
  BY DEF Next, Terminated

LEMMA ConfigStep == IInv /\ [Next]_vars => ConfigInv' /\ UNCHANGED configVars
<1> SUFFICES ASSUME IInv, [Next]_vars
             PROVE  ConfigInv' /\ UNCHANGED configVars
  OBVIOUS
<1> USE DEF ConfigInv
<1>1. ConfigInv
  BY DEF IInv
<1>2. CASE MatchStep
  <2>1. ASSUME NEW a \in Addons, Entry(a)
        PROVE  ConfigInv' /\ UNCHANGED configVars
    BY <1>1, <2>1 DEF Entry, configVars
  <2>2. CASE Begin \/ Scanned \/ ScanFails \/ Stop
    BY <1>1, <2>2 DEF Begin, Scanned, ScanFails, Stop, configVars
  <2>3. CASE Leave \/ Enumerate \/ Verified \/ Raise
    BY <1>1, <2>3 DEF Leave, Enumerate, Verified, Raise, configVars
  <2>4. QED
    BY <1>2, <2>1, <2>2, <2>3 DEF MatchStep
<1>3. CASE SessionEnds \/ Restore
  BY <1>1, <1>3 DEF SessionEnds, Restore, Return, configVars
<1>4. CASE Migrate \/ UNCHANGED vars
  BY <1>1, <1>4 DEF Migrate, matchVars, configVars, vars
<1>5. QED
  BY <1>2, <1>3, <1>4, Cases

LEMMA ScanStep == IInv /\ [Next]_vars => ScanInv'
<1> SUFFICES ASSUME IInv, [Next]_vars
             PROVE  ScanInv'
  OBVIOUS
<1> USE DEF ScanInv
<1>1. ScanInv /\ ConfigInv
  BY DEF IInv
<1>2. \A a : Harmless(a) <=> Harmless(a)'
  BY HarmlessStays, ConfigStep
<1>3. recovery' = recovery
  BY ConfigStep DEF configVars
<1>4. CASE MatchStep
  <2>1. ASSUME NEW a \in Addons, Entry(a)
        PROVE  ScanInv'
    <3>1. pc = "scan" /\ pc' = "scan" /\ UNCHANGED <<running, node, answer>>
      BY <2>1 DEF Entry
    <3>2. todo' = todo \ {a} /\ matches \subseteq matches'
      BY <2>1 DEF Entry
    <3>3. a \in running /\ a \notin matches' => Harmless(a)
      BY <1>1, <2>1, EntryIsHarmless
    <3>4. \A b \in running' \ (todo' \cup matches') : Harmless(b)
      BY <1>1, <3>1, <3>2, <3>3
    <3>5. QED
      BY <1>1, <1>2, <1>3, <3>1, <3>4
  <2>2. CASE Begin
    BY <1>1, <1>3, <2>2 DEF Begin, ConfigInv
  <2>3. CASE Scanned
    BY <1>1, <1>2, <1>3, <2>3 DEF Scanned
  <2>4. CASE Stop
    BY <1>1, <1>2, <2>4 DEF Stop
  <2>5. CASE Leave \/ Enumerate \/ Verified
    BY <1>1, <1>2, <2>5 DEF Leave, Enumerate, Verified
  <2>6. CASE ScanFails \/ Raise
    BY <2>6 DEF ScanFails, Raise
  <2>7. QED
    BY <1>4, <2>1, <2>2, <2>3, <2>4, <2>5, <2>6 DEF MatchStep
<1>5. CASE SessionEnds \/ Restore
  BY <1>5 DEF SessionEnds, Restore, Return
<1>6. CASE Migrate \/ UNCHANGED vars
  BY <1>1, <1>2, <1>3, <1>6 DEF Migrate, matchVars, vars
<1>7. QED
  BY <1>4, <1>5, <1>6, Cases

LEMMA ViewStep == IInv /\ [Next]_vars => ViewInv'
<1> SUFFICES ASSUME IInv, [Next]_vars
             PROVE  ViewInv'
  OBVIOUS
<1> USE DEF ViewInv, Shown
<1>1. ViewInv
  BY DEF IInv
<1>2. CASE UNCHANGED migrationVars
  BY <1>1, <1>2 DEF migrationVars
<1>3. CASE Migrate
  <2>1. ASSUME NEW name \in Names, Migration!Publish(name)
        PROVE  ViewInv'
    BY <1>1, <2>1 DEF Migration!Publish
  <2>2. CASE Migration!UpdateLocal
    BY <1>1, <2>2 DEF Migration!UpdateLocal
  <2>3. CASE Migration!UpdateInventory
    <3>1. /\ UNCHANGED <<stale, final, host, local>>
          /\ inventory' = {<<Foreign, "other">>} \cup (host \X {"radio"})
      BY <2>3 DEF Migration!UpdateInventory
    <3>2. ASSUME NEW entry \in inventory', entry[2] = "radio"
          PROVE  entry[1] \in host
      <4>1. entry # <<Foreign, "other">>
        BY <3>2
      <4>2. entry \in host \X {"radio"}
        BY <3>1, <4>1
      <4>3. QED
        BY <4>2
    <3>3. QED
      BY <1>1, <3>1, <3>2
  <2>4. CASE UNCHANGED Migration!viewVars
    BY <1>1, <2>4 DEF Migration!viewVars
  <2>5. QED
    BY <1>3, <2>1, <2>2, <2>3, <2>4
    DEF Migrate, Migration!MigrationStep, Migration!Start, Migration!ReadLocal,
        Migration!ReadLocalFails, Migration!ReadInventory, Migration!ReadInventoryFails,
        Migration!PollAgain, Migration!GiveUp
<1>4. QED
  BY <1>2, <1>3, Cases DEF SessionEnds, Restore, vars, migrationVars

\* A decision is made by what is shown, and names only what is published.
LEMMA DecideEffect ==
    ASSUME ViewInv, NEW aliases \in SUBSET Shown, Migration!Decide(aliases)
    PROVE  /\ poll' = "done"
           /\ current' \subseteq host
           /\ outcome' = "restore" /\ ~stale => Previous \in host
<1>1. CASE Previous \in aliases
  BY <1>1 DEF Migration!Decide, Migration!Ends, Shown
<1>2. CASE Previous \notin aliases
  <2>1. aliases \subseteq host
    BY <1>2 DEF Shown
  <2>2. poll' = "done" /\ outcome' \in {"renamed", "unresolved"} /\ current' \in {aliases, {}}
    BY <1>2 DEF Migration!Decide, Migration!Ends
  <2>3. QED
    BY <2>1, <2>2
<1>3. QED
  BY <1>1, <1>2

LEMMA OutcomeStep == IInv /\ [Next]_vars => OutcomeInv'
<1> SUFFICES ASSUME IInv, [Next]_vars
             PROVE  OutcomeInv'
  OBVIOUS
<1> USE DEF OutcomeInv
<1>1. OutcomeInv /\ ViewInv /\ ScanInv
  BY DEF IInv
<1>2. CASE poll = "start" /\ MatchStep /\ UNCHANGED migrationVars
  <2>1. outcome = "none" /\ UNCHANGED <<current, host, outcome, byId, stale, poll>>
    BY <1>1, <1>2 DEF migrationVars
  <2>2. QED
    BY <1>1, <1>2, <2>1
<1>3. CASE SessionEnds
  <2>1. /\ poll = "start" /\ outcome = "none"
        /\ UNCHANGED <<current, host, outcome, byId, stale, poll>>
    BY <1>1, <1>3 DEF SessionEnds, migrationVars
  <2>2. QED
    BY <1>1, <2>1
<1>4. CASE Restore
  <2>1. poll = "done" /\ UNCHANGED <<current, host, outcome, byId, stale, poll>>
    BY <1>4 DEF Restore, migrationVars
  <2>2. outcome # "restore" => (running' \cap matches') = {}
    BY <1>1, <1>4 DEF Restore, Return, ScanInv
  <2>3. pc' = "done"
    BY <1>4 DEF Restore, Return
  <2>4. QED
    BY <1>1, <2>1, <2>2, <2>3
<1>5. CASE Migrate
  <2>1. pc = "verified" /\ pc' = "verified"
    BY <1>5 DEF Migrate, matchVars
  <2>2. ASSUME NEW name \in Names, Migration!Publish(name)
        PROVE  OutcomeInv'
    BY <1>1, <2>1, <2>2 DEF Migration!Publish
  <2>3. CASE Migration!UpdateLocal \/ Migration!UpdateInventory
    <3>1. UNCHANGED <<byId, stale, host, poll, outcome, current>>
      BY <2>3, Zenon DEF Migration!UpdateLocal, Migration!UpdateInventory
    <3>2. QED
      BY <1>1, <2>1, <3>1
  <2>4. CASE Migration!Start
    BY <1>1, <2>1, <2>4 DEF Migration!Start, Migration!Ends, Migration!viewVars
  <2>5. CASE /\ poll \in {"local", "inventory", "sleep"}
             /\ poll' \in {"local", "inventory", "sleep"}
             /\ UNCHANGED <<Migration!viewVars, outcome, current>>
    BY <1>1, <2>1, <2>5 DEF Migration!viewVars
  <2>6. ASSUME NEW aliases \in SUBSET Shown, Migration!Decide(aliases),
               UNCHANGED Migration!viewVars
        PROVE  OutcomeInv'
    BY <1>1, <2>1, <2>6, DecideEffect DEF Migration!viewVars
  <2>7. CASE Migration!ReadLocal
    BY <1>1, <2>5, <2>6, <2>7 DEF Migration!ReadLocal, ViewInv
  <2>8. CASE Migration!ReadInventory
    <3>1. Migration!Listed \in SUBSET Shown
      BY <1>1 DEF Migration!Listed, ViewInv
    <3>2. QED
      BY <2>5, <2>6, <2>8, <3>1 DEF Migration!ReadInventory
  <2>9. CASE Migration!GiveUp
    BY <2>6, <2>9 DEF Migration!GiveUp
  <2>10. CASE Migration!ReadLocalFails \/ Migration!ReadInventoryFails \/ Migration!PollAgain
    BY <2>5, <2>10 DEF Migration!ReadLocalFails, Migration!ReadInventoryFails, Migration!PollAgain
  <2>11. QED
    BY <1>5, <2>2, <2>3, <2>4, <2>7, <2>8, <2>9, <2>10 DEF Migrate, Migration!MigrationStep
<1>6. CASE UNCHANGED vars
  BY <1>1, <1>6 DEF vars, migrationVars, matchVars
<1>7. QED
  BY <1>2, <1>3, <1>4, <1>5, <1>6, Cases

----------------------------------------------------------------------------
(* The theorems                                                            *)

\* The inductive invariant.
THEOREM InductiveInvariant == Spec => []IInv
<1>1. IInv /\ [Next]_vars => IInv'
  BY ConfigStep, ScanStep, ViewStep, OutcomeStep DEF IInv
<1>2. QED
  BY InitHolds, <1>1, PTL DEF Spec

\* No recognisable consumer of the radio runs in the body.
THEOREM ReadersAreStopped == Spec => []NoReaderIsMissed
<1>1. IInv => NoReaderIsMissed
  BY DEF IInv, ScanInv, NoReaderIsMissed, Readers, Harmless
<1>2. QED
  BY InductiveInvariant, <1>1, PTL

\* A consumer that runs again under the configured name finds the radio there.
THEOREM RestoredNameIsRight == Spec => []RestoredUnderTheRightName
<1>1. IInv => RestoredUnderTheRightName
  BY DEF IInv, OutcomeInv, ViewInv, RestoredUnderTheRightName
<1>2. QED
  BY InductiveInvariant, <1>1, PTL

\* The alias the operator is told is one of the radio.
THEOREM NamedAliasIsPublished == Spec => []NamedAliasIsCurrent
<1>1. IInv => NamedAliasIsCurrent
  BY DEF IInv, OutcomeInv, NamedAliasIsCurrent
<1>2. QED
  BY InductiveInvariant, <1>1, PTL
=============================================================================
