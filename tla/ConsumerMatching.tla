--------------------------- MODULE ConsumerMatching ---------------------------
(***************************************************************************)
(* Which add-ons are stopped before the radio is used: the scan of         *)
(* running_cul_consumers_using_device() in app/supervisor.py and the       *)
(* comparison of their options with the configured path.                   *)
(*                                                                         *)
(* An add-on names the radio by the configured path itself, by another     *)
(* path to the same node ("alias"), by a discovery mode, or not at all.    *)
(* Another path can be compared only while the node exists; it is gone     *)
(* while the radio is in its bootloader, and back before the application   *)
(* has answered V.  How add-ons are stopped and started is ConsumerPause;  *)
(* ConsumerNames composes the transaction with what follows a verified     *)
(* flash.                                                                  *)
(***************************************************************************)
EXTENDS Integers, FiniteSets

CONSTANT Addons

ASSUME AddonsAssumption == IsFiniteSet(Addons)

VARIABLES
    kind,       \* kind[a]: whose options schema a has
    paths,      \* paths[a]: what a's own configuration names
    listed,     \* add-ons of the additional_cul_addons option
    running,    \* add-ons in state "started"
    recovery,   \* did the transaction begin with the radio in its bootloader?
    node,       \* does the radio's tty exist?
    radio,      \* "unknown" from B01, or in a recovery, until V has answered
    pc,
    todo,       \* entries of GET /addons not handled yet
    answer,     \* the add-ons that were started in that answer
    matches     \* what the scan returns

configVars == <<kind, paths, listed, recovery>>
matchVars == <<configVars, running, node, radio, pc, todo, answer, matches>>

Kinds == {"wmbusmeters", "max2mqtt", "other"}
Spellings == {"selected", "alias", "auto", "elsewhere"}

\* wmbusmeters takes a list of specifications, discovery modes among them;
\* the others one path.
MatchInit ==
    /\ kind \in [Addons -> Kinds]
    /\ paths \in {f \in [Addons -> SUBSET Spellings] :
                     \A a \in Addons :
                         /\ f[a] # {}
                         /\ kind[a] # "wmbusmeters" => Cardinality(f[a]) = 1 /\ "auto" \notin f[a]}
    /\ listed \in SUBSET Addons
    /\ running \in SUBSET Addons
    /\ recovery \in BOOLEAN
    /\ node = ~recovery
    /\ radio = IF recovery THEN "unknown" ELSE "known"
    /\ pc = "idle"
    /\ todo = {}
    /\ answer = {}
    /\ matches = {}

----------------------------------------------------------------------------
(* The comparison                                                          *)

\* Fault variant of SameDevicePath: spellings are compared, not nodes.
SameSpelling(path) == path = "selected"

\* _same_device_path(): equal spelling, or both resolve to the same node.
SameDevicePath(path) == path = "selected" \/ (path = "alias" /\ node)

\* _wmbusmeters_uses_device() and _max2mqtt_uses_device()
UsesDevice(a) ==
    CASE kind[a] = "wmbusmeters" -> \E path \in paths[a] : path = "auto" \/ SameDevicePath(path)
      [] kind[a] = "max2mqtt" -> \E path \in paths[a] : SameDevicePath(path)
      [] OTHER -> FALSE

----------------------------------------------------------------------------
(* The transaction                                                         *)

\* GET /addons
Begin ==
    /\ pc = "idle"
    /\ pc' = "scan"
    /\ todo' = Addons
    /\ answer' = running
    /\ UNCHANGED <<configVars, running, node, radio, matches>>

\* One entry of the answer: a listed slug by the state in the answer, one of a
\* known schema by its own GET.
Entry(a) ==
    /\ pc = "scan"
    /\ a \in todo
    /\ todo' = todo \ {a}
    /\ matches' = IF \/ a \in listed /\ a \in answer
                     \/ a \notin listed /\ a \in running /\ UsesDevice(a)
                    THEN matches \cup {a} ELSE matches
    /\ UNCHANGED <<configVars, running, node, radio, pc, answer>>

Scanned ==
    /\ pc = "scan"
    /\ todo = {}
    /\ pc' = "stop"
    /\ UNCHANGED <<configVars, running, node, radio, todo, answer, matches>>

ScanFails ==
    /\ pc = "scan"
    /\ pc' = "done"
    /\ UNCHANGED <<configVars, running, node, radio, todo, answer, matches>>

Stop ==
    /\ pc = "stop"
    /\ running' = running \ matches
    /\ pc' = "body"
    /\ UNCHANGED <<configVars, node, radio, todo, answer, matches>>

\* B01: the node goes.
Leave ==
    /\ pc = "body"
    /\ node
    /\ node' = FALSE
    /\ radio' = "unknown"
    /\ UNCHANGED <<configVars, running, pc, todo, answer, matches>>

\* The new application enumerates.
Enumerate ==
    /\ pc = "body"
    /\ ~node
    /\ node' = TRUE
    /\ UNCHANGED <<configVars, running, radio, pc, todo, answer, matches>>

\* The new application answers V.
Verified ==
    /\ pc = "body"
    /\ node
    /\ radio = "unknown"
    /\ pc' = "verified"
    /\ radio' = "known"
    /\ UNCHANGED <<configVars, running, node, todo, answer, matches>>

\* From B01 on, or in a recovery, an error leaves the consumers stopped, one
\* of the save that follows V included; before B01 it restores them.
Raise ==
    /\ pc \in {"body", "verified"}
    /\ pc' = "done"
    /\ running' = IF pc = "body" /\ radio = "known" THEN running \cup matches ELSE running
    /\ UNCHANGED <<configVars, node, radio, todo, answer, matches>>

\* The transaction ends - a flash after V, a session that sent no B01 at any
\* time: what was stopped is restored unless it is retained.
Return(retained) ==
    /\ pc = "verified" \/ (pc = "body" /\ radio = "known")
    /\ pc' = "done"
    /\ running' = IF retained THEN running ELSE running \cup matches
    /\ UNCHANGED <<configVars, node, radio, todo, answer, matches>>

MatchStep ==
    \/ Begin
    \/ \E a \in Addons : Entry(a)
    \/ Scanned \/ ScanFails \/ Stop \/ Leave \/ Enumerate \/ Verified \/ Raise

----------------------------------------------------------------------------
(* What the options mean                                                   *)

\* The add-on's configuration leads it to the radio.
NamesRadio(a) ==
    \/ paths[a] \cap {"selected", "alias"} # {}
    \/ kind[a] = "wmbusmeters" /\ "auto" \in paths[a]

\* The README's consumers: of a known schema, or listed by the operator.
Coordinated(a) == kind[a] # "other" \/ a \in listed

\* Add-ons that would open the radio as soon as its node is there.
Readers == {a \in running : Coordinated(a) /\ NamesRadio(a)}

\* Add-ons that nothing but a path to a node that is gone connects to the radio.
Unrecognisable(a) == recovery /\ a \notin listed /\ paths[a] \cap {"selected", "auto"} = {}
=============================================================================
