------------------------- MODULE ConsumerPause_proofs -------------------------
(***************************************************************************)
(* Proofs about ConsumerPause, for any number of consumers, attempts and   *)
(* transactions.                                                           *)
(*                                                                         *)
(* The safety properties are facts about the body and the end of a         *)
(* transaction.  The inductive invariant says what each phase before them  *)
(* has already established: which consumers the loops are done with, and   *)
(* that a consumer with a start under way does not run yet, so that the    *)
(* scan cannot have taken it for a match.                                  *)
(***************************************************************************)
EXTENDS ConsumerPause, FiniteSetTheorems, TLAPS

Entering == {"scan", "stop", "await"}
Stopping == {"stop", "await", "body"}
Restoring == {"restore", "confirm"}

\* The Supervisor: a consumer that is being started does not run yet, and one
\* that does not lag has nothing under way.
CommandsInv ==
    \A a \in Addons :
        /\ command[a] = "start" => addon[a] # "started"
        /\ ~lagging => command[a] = "none"

\* Where the loops of the entry are, and what they have not touched yet.
EntryInv ==
    /\ pc \in Entering => /\ radio = "normal" /\ ~leave /\ retained = {}
                          /\ failures = {} /\ result = "none"
    /\ pc = "scan" => stopped = {}
    /\ pc \in {"stop", "await"} => todo \subseteq matches
    /\ pc = "stop" => stopped = matches \ todo
    /\ pc = "await" => todo # {} /\ stopped = (matches \ todo) \cup {First}
    /\ pc = "body" => todo = {} /\ stopped = matches /\ failures = {} /\ result = "none"

\* What the entry has achieved: the consumers it is done with are quiet.
QuietInv ==
    /\ pc \in {"scan"} \cup Stopping => \A a \in matches : command[a] # "start"
    /\ pc \in Stopping => \A a \in matches \ todo : addon[a] # "started"
    /\ pc = "scan" /\ ~lagging => \A a \in Addons \ (todo \cup matches) : addon[a] # "started"
    /\ pc \in Stopping /\ ~lagging => \A a \in Addons \ matches : addon[a] # "started"

\* An uncertain radio: nothing is left to be restored.
UncertainInv ==
    /\ radio = "uncertain" => leave /\ pc \in {"body", "restore", "idle"} /\ todo = {}
    /\ NoReopenWhileUncertain

\* What _restore() has still to do, and what it has done.
RestoreInv ==
    /\ pc \in Restoring => todo \subseteq stopped \ retained /\ result # "none"
    /\ pc = "confirm" => todo # {}
    /\ pc = "idle" => todo = {} \/ stopped = {}
    /\ pc \in Restoring \cup {"idle"} /\ ~lagging =>
           \A a \in stopped \ retained :
               \/ a \in todo
               \/ a \in failures
               \/ addon[a] = "started"
               \/ leave /\ result = "error"
    /\ result = "ok" => radio = "verified" /\ stopped = matches /\ pc \in Restoring \cup {"idle"}
    /\ pc = "idle" /\ result = "ok" => failures = {}

IInv == TypeOK /\ CommandsInv /\ EntryInv /\ QuietInv /\ UncertainInv /\ RestoreInv

----------------------------------------------------------------------------
(* Lemmas: the ends of the loops, and what a request can do                *)

\* A nonempty finite set of slugs has a last one and a first one.
LEMMA HasMax ==
    ASSUME NEW S \in SUBSET Nat, IsFiniteSet(S), S # {}
    PROVE  \E x \in S : \A y \in S : x >= y
<1> DEFINE F == FiniteSubsetsOf(S)
           T == {s \in F : s # {} /\ ~\E x \in s : \A y \in s : x >= y}
<1>1. SUFFICES ASSUME T # {}
               PROVE  FALSE
  <2>1. S \in F
    BY DEF FiniteSubsetsOf
  <2>2. QED
    BY <1>1, <2>1
<1>2. PICK s \in T : \A t \in T : ~(<<t, s>> \in StrictSubsetOrdering(S))
  <2>1. T \subseteq F
    OBVIOUS
  <2>2. IsWellFoundedOn(StrictSubsetOrdering(S), F)
    BY FS_StrictSubsetOrderingWellFounded
  <2> HIDE DEF T, F
  <2>3. QED
    BY <1>1, <2>1, <2>2, WFMin
<1>3. PICK e \in s : TRUE
  BY <1>2
<1>4. s \subseteq S /\ IsFiniteSet(s) /\ s \subseteq Nat
  BY <1>2 DEF FiniteSubsetsOf
<1>5. s \ {e} \in F /\ s \ {e} # s /\ s \ {e} \subseteq s
  BY <1>3, <1>4, FS_Subset DEF FiniteSubsetsOf
<1>6. <<s \ {e}, s>> \in StrictSubsetOrdering(S)
  BY <1>4, <1>5 DEF StrictSubsetOrdering
<1>7. s \ {e} \notin T
  BY <1>2, <1>6
<1>8. CASE s \ {e} = {}
  BY <1>2, <1>3, <1>4, <1>8
<1>9. CASE s \ {e} # {}
  <2>1. PICK m \in s \ {e} : \A y \in s \ {e} : m >= y
    BY <1>5, <1>7, <1>9
  <2>2. IF m >= e THEN \A y \in s : m >= y ELSE \A y \in s : e >= y
    BY <1>3, <1>4, <2>1
  <2>3. QED
    BY <1>2, <1>3, <2>1, <2>2
<1>10. QED
  BY <1>8, <1>9

LEMMA HasMin ==
    ASSUME NEW S \in SUBSET Nat, S # {}
    PROVE  \E x \in S : \A y \in S : x <= y
<1>1. PICK x \in S : \A y \in S : ~(<<y, x>> \in OpToRel(<, Nat))
  BY NatLessThanWellFounded, WFMin
<1>2. \A y \in S : ~(y < x)
  BY <1>1, Zenon DEF OpToRel
<1>3. QED
  BY <1>2

\* Whatever a loop has to handle next is one of those it has to handle.
LEMMA LoopEnds ==
    ASSUME todo \subseteq Addons, todo # {}
    PROVE  First \in todo /\ Last \in todo
<1>1. todo \in SUBSET Nat /\ IsFiniteSet(todo)
  BY AddonsAssumption, FS_Subset
<1>2. \E x \in todo : \A y \in todo : x =< y
  BY <1>1, HasMin
<1>3. \E x \in todo : \A y \in todo : x >= y
  BY <1>1, HasMax
<1>4. QED
  BY <1>2, <1>3 DEF First, Last, Min, Max

\* A request touches one add-on: nothing happens, its command is done, or it
\* is under way.
LEMMA PostEffect ==
    ASSUME TypeOK, NEW a \in Addons, NEW c \in {"stop", "start"}, NEW answered \in BOOLEAN,
           Post(a, c, answered)
    PROVE  /\ addon' \in [Addons -> States] /\ command' \in [Addons -> Commands]
           /\ lagging' = lagging
           /\ \A b \in Addons \ {a} : addon'[b] = addon[b] /\ command'[b] = command[b]
           /\ \/ addon'[a] = addon[a] /\ command'[a] = command[a]
              \/ command[a] = "none" /\ command'[a] = "none" /\ addon'[a] \in Outcomes(c)
              \/ command[a] = "none" /\ lagging /\ command'[a] = c /\ addon'[a] = addon[a]
<1> USE DEF TypeOK, Commands, States, Outcomes
<1>1. CASE command[a] = "none" /\ (\E s \in Outcomes(c) : addon' = [addon EXCEPT ![a] = s])
           /\ UNCHANGED <<command, lagging>>
  BY <1>1
<1>2. CASE command[a] = "none" /\ lagging /\ command' = [command EXCEPT ![a] = c]
           /\ UNCHANGED <<addon, lagging>>
  BY <1>2
<1>3. CASE UNCHANGED supervisorVars
  BY <1>3 DEF supervisorVars
<1>4. QED
  BY <1>1, <1>2, <1>3 DEF Post

\* A command that ends touches one add-on too.
LEMMA FinishEffect ==
    ASSUME TypeOK, NEW a \in Addons, Finish(a)
    PROVE  /\ addon' \in [Addons -> States] /\ command' \in [Addons -> Commands]
           /\ lagging' = lagging
           /\ \A b \in Addons \ {a} : addon'[b] = addon[b] /\ command'[b] = command[b]
           /\ command[a] \in {"stop", "start"} /\ command'[a] = "none"
           /\ addon'[a] \in Outcomes(command[a])
  BY DEF Finish, TypeOK, Commands, States, Outcomes

----------------------------------------------------------------------------
(* The invariant is inductive                                              *)

LEMMA InitHolds == Init => IInv
<1> SUFFICES ASSUME Init
             PROVE  IInv
  OBVIOUS
<1>1. TypeOK
  <2>1. attempt \in 1..Attempts /\ runs \in 0..MaxRuns
    BY AttemptsAssumption, MaxRunsAssumption DEF Init
  <2>2. addon \in [Addons -> States] /\ command \in [Addons -> Commands]
    BY DEF Init, States, Commands
  <2>3. QED
    BY <2>1, <2>2, Zenon DEF Init, TypeOK, Pcs
<1>2. CommandsInv /\ EntryInv /\ QuietInv /\ UncertainInv /\ RestoreInv
  BY DEF Init, CommandsInv, EntryInv, QuietInv, UncertainInv, NoReopenWhileUncertain, RestoreInv,
         Entering, Stopping, Restoring
<1>3. QED
  BY <1>1, <1>2 DEF IInv

\* The actions that leave the Supervisor alone.
Internal ==
    \/ Begin \/ Match \/ MatchFails \/ Matched \/ StopConfirmed \/ StopUnconfirmed \/ EnterBody
    \/ LeaveStopped \/ Verify \/ RetainAddons \/ BodyReturns \/ BodyRaises
    \/ QueryFails \/ StartConfirmed \/ StartUnconfirmed \/ End \/ UNCHANGED vars

LEMMA Cases ==
    ASSUME [Next]_vars
    PROVE  Internal \/ StopAddon \/ StopAddonFails \/ RestoreAddon \/ \E a \in Addons : Finish(a)
  BY DEF Next, Step, Terminated, Internal

LEMMA InternalLeavesSupervisor ==
    ASSUME Internal
    PROVE  UNCHANGED supervisorVars
  BY DEF Internal, Begin, Match, MatchFails, Matched, StopConfirmed, StopUnconfirmed, EnterBody,
         LeaveStopped, Verify, RetainAddons, BodyReturns, BodyRaises, QueryFails,
         StartConfirmed, StartUnconfirmed, End, vars, supervisorVars

\* An attempt of _restore() that failed keeps the slug or gives it up.
LEMMA AttemptEffect ==
    ASSUME TypeOK, todo # {}, AttemptFails
    PROVE  /\ pc' = "restore" /\ attempt' \in 1..Attempts
           /\ \/ todo' = todo /\ failures' = failures
              \/ todo' = todo \ {Last} /\ failures' = failures \cup {Last}
  BY AttemptsAssumption DEF AttemptFails, TypeOK

\* What the four steps of the loop of _restore() have in common.
LEMMA RestoreEffect ==
    ASSUME IInv, RestoreAddon \/ QueryFails \/ StartConfirmed \/ StartUnconfirmed
    PROVE  /\ pc \in Restoring /\ pc' \in Restoring /\ todo # {} /\ Last \in todo
           /\ pc' = "confirm" => todo' = todo
           /\ attempt' \in 1..Attempts
           /\ UNCHANGED <<matches, stopped, pauseVars, result, runs>>
           /\ \/ todo' = todo /\ failures' = failures
              \/ todo' = todo \ {Last} /\ failures' = failures \cup {Last}
              \/ todo' = todo \ {Last} /\ failures' = failures /\ addon[Last] = "started"
<1>1. todo # {} /\ Last \in todo
  BY LoopEnds DEF IInv, TypeOK, RestoreInv, RestoreAddon, QueryFails, StartConfirmed,
                  StartUnconfirmed
<1>2. TypeOK /\ attempt \in 1..Attempts /\ 1 \in 1..Attempts
  BY AttemptsAssumption DEF IInv, TypeOK
<1>3. CASE RestoreAddon
  BY <1>1, <1>2, <1>3, AttemptEffect DEF RestoreAddon, Restoring, restoreVars
<1>4. CASE QueryFails
  BY <1>1, <1>2, <1>4, AttemptEffect DEF QueryFails, Restoring
<1>5. CASE StartConfirmed
  BY <1>1, <1>2, <1>5 DEF StartConfirmed, Restored, Restoring
<1>6. CASE StartUnconfirmed
  BY <1>1, <1>2, <1>6, AttemptEffect DEF StartUnconfirmed, Restoring
<1>7. QED
  BY <1>3, <1>4, <1>5, <1>6

\* What a stop request does to the add-ons, and what a start request does.
LEMMA StopEffect ==
    ASSUME IInv, StopAddon \/ StopAddonFails
    PROVE  /\ First \in todo
           /\ addon' \in [Addons -> States] /\ command' \in [Addons -> Commands]
           /\ lagging' = lagging
           /\ \A b \in Addons \ {First} : addon'[b] = addon[b] /\ command'[b] = command[b]
           /\ \/ addon'[First] = addon[First] /\ command'[First] = command[First]
              \/ command'[First] = "none" /\ addon'[First] \in {"stopped", "error"}
              \/ lagging /\ command'[First] = "stop" /\ addon'[First] = addon[First]
<1>1. TypeOK /\ First \in todo /\ First \in Addons
  BY LoopEnds DEF IInv, TypeOK, StopAddon, StopAddonFails
<1>2. PICK answered \in BOOLEAN : Post(First, "stop", answered)
  BY DEF StopAddon, StopAddonFails
<1>3. QED
  BY <1>1, <1>2, PostEffect DEF Outcomes

LEMMA StartEffect ==
    ASSUME IInv, RestoreAddon
    PROVE  /\ Last \in todo
           /\ addon' \in [Addons -> States] /\ command' \in [Addons -> Commands]
           /\ lagging' = lagging
           /\ \A b \in Addons \ {Last} : addon'[b] = addon[b] /\ command'[b] = command[b]
           /\ \/ addon'[Last] = addon[Last] /\ command'[Last] = command[Last]
              \/ /\ addon[Last] # "started"
                 /\ command'[Last] = "none" /\ addon'[Last] \in {"started", "error"}
              \/ /\ addon[Last] # "started"
                 /\ lagging /\ command'[Last] = "start" /\ addon'[Last] = addon[Last]
<1>1. TypeOK /\ Last \in todo /\ Last \in Addons
  BY LoopEnds DEF IInv, TypeOK, RestoreAddon
<1>2. CASE UNCHANGED supervisorVars
  BY <1>1, <1>2 DEF supervisorVars, TypeOK
<1>3. CASE ~UNCHANGED supervisorVars
  <2>1. PICK answered \in BOOLEAN : addon[Last] # "started" /\ Post(Last, "start", answered)
    BY <1>3 DEF RestoreAddon
  <2>2. QED
    BY <1>1, <2>1, PostEffect DEF Outcomes
<1>4. QED
  BY <1>2, <1>3

LEMMA TypeStep == IInv /\ [Next]_vars => TypeOK'
<1> SUFFICES ASSUME IInv, [Next]_vars
             PROVE  TypeOK'
  OBVIOUS
<1> DEFINE Sets ==
             /\ pc \in Pcs /\ todo \subseteq Addons /\ matches \subseteq Addons
             /\ stopped \subseteq matches /\ retained \subseteq stopped /\ failures \subseteq stopped
           Flags ==
             /\ radio \in {"normal", "uncertain", "verified"} /\ leave \in BOOLEAN
             /\ result \in {"none", "ok", "error"}
           Counters == attempt \in 1..Attempts /\ runs \in 0..MaxRuns
           Supervisor ==
             addon \in [Addons -> States] /\ command \in [Addons -> Commands] /\ lagging \in BOOLEAN
<1>1. Sets /\ Flags /\ Counters /\ Supervisor
  BY DEF IInv, TypeOK
<1>2. Supervisor'
  <2>1. CASE Internal
    BY <1>1, <2>1, InternalLeavesSupervisor DEF supervisorVars
  <2>2. CASE StopAddon \/ StopAddonFails
    BY <1>1, <2>2, StopEffect
  <2>3. CASE RestoreAddon
    BY <1>1, <2>3, StartEffect
  <2>4. ASSUME NEW a \in Addons, Finish(a)
        PROVE  Supervisor'
    BY <1>1, <2>4, FinishEffect DEF IInv
  <2>5. QED
    BY <2>1, <2>2, <2>3, <2>4, Cases
<1>3. Counters'
  <2>1. 1 \in 1..Attempts
    BY AttemptsAssumption
  <2>2. CASE Begin
    BY <1>1, <2>1, <2>2, MaxRunsAssumption DEF Begin
  <2>3. CASE RestoreAddon \/ QueryFails \/ StartConfirmed \/ StartUnconfirmed
    BY <1>1, <2>3, RestoreEffect
  <2>4. CASE UNCHANGED <<attempt, runs>> \/ (attempt' = 1 /\ runs' = runs)
    BY <1>1, <2>1, <2>4
  <2>5. QED
    BY <2>2, <2>3, <2>4, Cases
    DEF Internal, Match, MatchFails, Matched, StopAddon, StopAddonFails, StopConfirmed,
        StopUnconfirmed, EnterBody, LeaveStopped, Verify, RetainAddons, BodyReturns, BodyRaises,
        End, Finish, GiveUp, restoreVars, vars
<1>4. Flags'
  <2>1. CASE RestoreAddon \/ QueryFails \/ StartConfirmed \/ StartUnconfirmed
    BY <1>1, <2>1, RestoreEffect DEF pauseVars
  <2>2. CASE ~(RestoreAddon \/ QueryFails \/ StartConfirmed \/ StartUnconfirmed)
    BY <1>1, <2>2, Cases, Zenon
    DEF Internal, Begin, Match, MatchFails, Matched, StopAddon, StopAddonFails, StopConfirmed,
        StopUnconfirmed, EnterBody, LeaveStopped, Verify, RetainAddons, BodyReturns, BodyRaises,
        End, Finish, GiveUp, pauseVars, vars
  <2>3. QED
    BY <2>1, <2>2
<1>5. Sets'
  <2>1. CASE RestoreAddon \/ QueryFails \/ StartConfirmed \/ StartUnconfirmed
    BY <1>1, <2>1, RestoreEffect DEF pauseVars, IInv, RestoreInv, Restoring, Pcs
  <2>2. CASE StopAddon \/ StopAddonFails
    BY <1>1, <2>2, StopEffect DEF StopAddon, StopAddonFails, GiveUp, IInv, EntryInv, Pcs, pauseVars,
           restoreVars
  <2>3. CASE Begin \/ Match \/ MatchFails \/ Matched
    BY <1>1, <2>3 DEF Begin, Match, MatchFails, Matched, Pcs, pauseVars, restoreVars
  <2>4. CASE StopConfirmed \/ StopUnconfirmed \/ EnterBody
    BY <1>1, <2>4 DEF StopConfirmed, StopUnconfirmed, EnterBody, GiveUp, Pcs, pauseVars, restoreVars
  <2>5. CASE LeaveStopped \/ Verify \/ RetainAddons \/ BodyReturns \/ BodyRaises
    BY <1>1, <2>5 DEF LeaveStopped, Verify, RetainAddons, BodyReturns, BodyRaises, GiveUp,
           AddonsToRestore, Pcs, pauseVars, restoreVars
  <2>6. CASE End \/ UNCHANGED vars \/ \E a \in Addons : Finish(a)
    BY <1>1, <2>6 DEF End, Finish, vars, Pcs, pauseVars, restoreVars
  <2>7. QED
    BY <2>1, <2>2, <2>3, <2>4, <2>5, <2>6, Cases DEF Internal
<1>6. QED
  BY <1>2, <1>3, <1>4, <1>5 DEF TypeOK

LEMMA CommandsStep == IInv /\ [Next]_vars => CommandsInv'
<1> SUFFICES ASSUME IInv, [Next]_vars
             PROVE  CommandsInv'
  OBVIOUS
<1>1. CommandsInv /\ TypeOK
  BY DEF IInv
<1>2. CASE Internal
  BY <1>1, <1>2, InternalLeavesSupervisor DEF supervisorVars, CommandsInv
<1>3. CASE StopAddon \/ StopAddonFails
  BY <1>1, <1>3, StopEffect DEF CommandsInv
<1>4. CASE RestoreAddon
  BY <1>1, <1>4, StartEffect DEF CommandsInv
<1>5. ASSUME NEW a \in Addons, Finish(a)
      PROVE  CommandsInv'
  BY <1>1, <1>5, FinishEffect DEF CommandsInv
<1>6. QED
  BY <1>2, <1>3, <1>4, <1>5, Cases

LEMMA EntryStep == IInv /\ [Next]_vars => EntryInv'
<1> SUFFICES ASSUME IInv, [Next]_vars
             PROVE  EntryInv'
  OBVIOUS
<1> USE DEF EntryInv, Entering
<1>1. EntryInv /\ TypeOK
  BY DEF IInv
<1>2. CASE RestoreAddon \/ QueryFails \/ StartConfirmed \/ StartUnconfirmed
  BY <1>2, RestoreEffect DEF Restoring
<1>3. CASE StopAddon
  BY <1>1, <1>3, StopEffect DEF StopAddon, First, pauseVars, restoreVars
<1>4. CASE StopAddonFails \/ StopUnconfirmed \/ BodyReturns \/ BodyRaises \/ End \/ MatchFails
  BY <1>4 DEF StopAddonFails, StopUnconfirmed, BodyReturns, BodyRaises, End, MatchFails, GiveUp
<1>5. CASE Begin
  BY <1>5 DEF Begin
<1>6. CASE Match
  BY <1>1, <1>6 DEF Match, pauseVars, restoreVars
<1>7. CASE Matched
  BY <1>1, <1>7 DEF Matched, pauseVars, restoreVars
<1>8. CASE StopConfirmed
  BY <1>1, <1>8, LoopEnds DEF StopConfirmed, pauseVars, restoreVars, TypeOK
<1>9. CASE EnterBody
  BY <1>1, <1>9 DEF EnterBody, pauseVars, restoreVars
<1>10. CASE LeaveStopped \/ Verify \/ RetainAddons
  BY <1>1, <1>10 DEF LeaveStopped, Verify, RetainAddons, restoreVars
<1>11. CASE UNCHANGED vars \/ \E a \in Addons : Finish(a)
  BY <1>1, <1>11 DEF vars, Finish, First, pauseVars, restoreVars
<1>12. QED
  BY <1>2, <1>3, <1>4, <1>5, <1>6, <1>7, <1>8, <1>9, <1>10, <1>11, Cases DEF Internal

LEMMA QuietStep == IInv /\ [Next]_vars => QuietInv'
<1> SUFFICES ASSUME IInv, [Next]_vars
             PROVE  QuietInv'
  OBVIOUS
<1> USE DEF QuietInv, Stopping
<1>1. QuietInv /\ CommandsInv /\ TypeOK
  BY DEF IInv
<1>2. CASE RestoreAddon \/ QueryFails \/ StartConfirmed \/ StartUnconfirmed
  BY <1>2, RestoreEffect DEF Restoring
<1>3. CASE StopAddonFails \/ StopUnconfirmed \/ BodyReturns \/ BodyRaises \/ End \/ MatchFails
  BY <1>3 DEF StopAddonFails, StopUnconfirmed, BodyReturns, BodyRaises, End, MatchFails, GiveUp
<1>4. CASE StopAddon
  BY <1>1, <1>4, StopEffect DEF StopAddon, TypeOK, IInv, EntryInv
<1>5. CASE Begin
  BY <1>1, <1>5 DEF Begin, supervisorVars
<1>6. CASE Match
  BY <1>1, <1>6 DEF Match, supervisorVars, CommandsInv, TypeOK
<1>7. CASE Matched
  BY <1>1, <1>7 DEF Matched, supervisorVars
<1>8. CASE StopConfirmed
  BY <1>1, <1>8 DEF StopConfirmed, supervisorVars
<1>9. CASE EnterBody \/ LeaveStopped \/ Verify \/ RetainAddons \/ UNCHANGED vars
  BY <1>1, <1>9 DEF EnterBody, LeaveStopped, Verify, RetainAddons, supervisorVars, vars
<1>10. ASSUME NEW a \in Addons, Finish(a)
       PROVE  QuietInv'
  <2>1. UNCHANGED <<pc, todo, matches>>
    BY <1>10 DEF Finish
  <2>2. command[a] = "stop" => addon'[a] # "started"
    BY <1>1, <1>10, FinishEffect DEF Outcomes
  <2>3. ~lagging => command[a] = "none"
    BY <1>1 DEF CommandsInv
  <2>4. QED
    BY <1>1, <1>10, <2>1, <2>2, <2>3, FinishEffect DEF TypeOK
<1>11. QED
  BY <1>2, <1>3, <1>4, <1>5, <1>6, <1>7, <1>8, <1>9, <1>10, Cases DEF Internal

LEMMA UncertainStep == IInv /\ [Next]_vars => UncertainInv'
<1> SUFFICES ASSUME IInv, [Next]_vars
             PROVE  UncertainInv'
  OBVIOUS
<1> USE DEF UncertainInv, NoReopenWhileUncertain
<1>1. UncertainInv /\ TypeOK
  BY DEF IInv
<1>2. CASE RestoreAddon \/ QueryFails \/ StartConfirmed \/ StartUnconfirmed
  BY <1>1, <1>2, RestoreEffect DEF pauseVars
<1>3. CASE StopAddon \/ StopAddonFails \/ StopConfirmed \/ StopUnconfirmed \/ Match \/ MatchFails
           \/ Matched
  BY <1>1, <1>3 DEF StopAddon, StopAddonFails, StopConfirmed, StopUnconfirmed, Match, MatchFails,
         Matched, pauseVars
<1>4. CASE Begin \/ Verify
  BY <1>4 DEF Begin, Verify
<1>5. CASE LeaveStopped
  BY <1>5 DEF LeaveStopped, IInv, EntryInv, QuietInv, Stopping, CommandsInv, supervisorVars
<1>6. CASE EnterBody \/ RetainAddons \/ BodyReturns \/ BodyRaises \/ End \/ UNCHANGED vars
  BY <1>1, <1>6 DEF EnterBody, RetainAddons, BodyReturns, BodyRaises, End, GiveUp, pauseVars,
         supervisorVars, vars
<1>7. ASSUME NEW a \in Addons, Finish(a)
      PROVE  UncertainInv'
  <2>1. UNCHANGED <<pc, todo, matches, radio, leave>>
    BY <1>7 DEF Finish, pauseVars
  <2>2. command[a] = "stop" => addon'[a] # "started"
    BY <1>1, <1>7, FinishEffect DEF Outcomes
  <2>3. ~lagging => command[a] = "none"
    BY DEF IInv, CommandsInv
  <2>4. QED
    BY <1>1, <1>7, <2>1, <2>2, <2>3, FinishEffect DEF TypeOK
<1>8. QED
  BY <1>2, <1>3, <1>4, <1>5, <1>6, <1>7, Cases DEF Internal

\* With a Supervisor that does not lag, nothing runs or stops by itself.
LEMMA NoLateEffect ==
    ASSUME IInv, ~lagging, NEW a \in Addons
    PROVE  ~Finish(a)
  BY DEF IInv, CommandsInv, Finish

LEMMA RestoreStep == IInv /\ [Next]_vars => RestoreInv'
<1> SUFFICES ASSUME IInv, [Next]_vars
             PROVE  RestoreInv'
  OBVIOUS
<1> USE DEF RestoreInv, Restoring
<1>1. RestoreInv /\ TypeOK /\ EntryInv
  BY DEF IInv
<1>2. CASE RestoreAddon
  <2>1. /\ UNCHANGED <<matches, stopped, radio, leave, retained, result, lagging>>
        /\ pc' \in Restoring /\ (pc' = "confirm" => todo' = todo)
        /\ Last \in todo /\ pc \in Restoring /\ todo # {}
    BY <1>2, RestoreEffect, StartEffect DEF pauseVars
  <2>2. \/ todo' = todo /\ failures' = failures
        \/ todo' = todo \ {Last} /\ failures' = failures \cup {Last}
        \/ todo' = todo \ {Last} /\ failures' = failures /\ addon[Last] = "started"
    BY <1>2, RestoreEffect
  <2>3. \A b \in Addons : addon[b] = "started" => addon'[b] = "started"
    BY <1>2, StartEffect
  <2>4. QED
    BY <1>1, <2>1, <2>2, <2>3 DEF TypeOK
<1>3. CASE QueryFails \/ StartConfirmed \/ StartUnconfirmed
  <2>1. /\ UNCHANGED <<matches, stopped, radio, leave, retained, result, lagging, addon>>
        /\ pc' \in Restoring /\ (pc' = "confirm" => todo' = todo)
        /\ Last \in todo /\ pc \in Restoring /\ todo # {}
    BY <1>3, RestoreEffect, InternalLeavesSupervisor DEF pauseVars, supervisorVars, Internal
  <2>2. \/ todo' = todo /\ failures' = failures
        \/ todo' = todo \ {Last} /\ failures' = failures \cup {Last}
        \/ todo' = todo \ {Last} /\ failures' = failures /\ addon[Last] = "started"
    BY <1>3, RestoreEffect
  <2>3. QED
    BY <1>1, <2>1, <2>2 DEF TypeOK
<1>4. CASE StopAddon \/ Match \/ Matched \/ StopConfirmed \/ EnterBody
  BY <1>1, <1>4 DEF EntryInv, Entering, StopAddon, Match, Matched, StopConfirmed, EnterBody
<1>5. CASE MatchFails
  BY <1>1, <1>5 DEF EntryInv, Entering, MatchFails
<1>6. CASE StopAddonFails \/ StopUnconfirmed
  BY <1>1, <1>6 DEF EntryInv, Entering, StopAddonFails, StopUnconfirmed, GiveUp, pauseVars
<1>7. CASE Begin
  BY <1>7 DEF Begin
<1>8. CASE LeaveStopped \/ Verify \/ RetainAddons
  BY <1>1, <1>8 DEF EntryInv, LeaveStopped, Verify, RetainAddons
<1>9. CASE BodyReturns
  BY <1>1, <1>9 DEF EntryInv, BodyReturns, AddonsToRestore, pauseVars
<1>10. CASE BodyRaises
  BY <1>1, <1>10 DEF EntryInv, BodyRaises, GiveUp, AddonsToRestore, pauseVars
<1>11. CASE End
  BY <1>1, <1>11 DEF End, pauseVars, restoreVars, supervisorVars
<1>12. CASE UNCHANGED vars
  BY <1>1, <1>12 DEF vars, supervisorVars
<1>13. ASSUME NEW a \in Addons, Finish(a)
       PROVE  RestoreInv'
  <2>1. lagging /\ UNCHANGED <<lagging, pc, todo, matches, stopped, radio, leave, retained, failures,
                               result>>
    BY <1>13, NoLateEffect DEF Finish, pauseVars, restoreVars
  <2>2. QED
    BY <1>1, <2>1
<1>14. QED
  BY <1>2, <1>3, <1>4, <1>5, <1>6, <1>7, <1>8, <1>9, <1>10, <1>11, <1>12, <1>13, Cases DEF Internal

----------------------------------------------------------------------------
(* The theorems                                                            *)

\* The inductive invariant.
THEOREM InductiveInvariant == Spec => []IInv
<1>1. IInv /\ [Next]_vars => IInv'
  BY TypeStep, CommandsStep, EntryStep, QuietStep, UncertainStep, RestoreStep DEF IInv
<1>2. QED
  BY InitHolds, <1>1, PTL DEF Spec

\* Type correctness.
THEOREM TypeCorrect == Spec => []TypeOK
<1>1. IInv => TypeOK
  BY DEF IInv
<1>2. QED
  BY InductiveInvariant, <1>1, PTL

\* No consumer that was found running holds the radio in the body.
THEOREM BodyIsExclusive == Spec => []ExclusiveInBody
<1>1. IInv => ExclusiveInBody
  BY DEF IInv, EntryInv, QuietInv, Stopping, ExclusiveInBody
<1>2. QED
  BY InductiveInvariant, <1>1, PTL

\* An uncertain radio is not reopened.
THEOREM UncertainStaysClosed == Spec => []NoReopenWhileUncertain
<1>1. IInv => NoReopenWhileUncertain
  BY DEF IInv, UncertainInv
<1>2. QED
  BY InductiveInvariant, <1>1, PTL

\* What was stopped runs again, or the operator is told.
THEOREM StoppedIsAccounted == Spec => []RestoredOrReported
<1>1. IInv => RestoredOrReported
  <2> SUFFICES ASSUME IInv, pc = "idle", ~lagging, NEW a \in stopped
               PROVE  \/ addon[a] = "started"
                      \/ a \in failures \cup retained
                      \/ leave /\ result = "error"
    BY DEF RestoredOrReported
  <2>1. QED
    BY DEF IInv, RestoreInv, Restoring
<1>2. QED
  BY InductiveInvariant, <1>1, PTL

\* A success leaves only retained consumers behind.
THEOREM SuccessRestores == Spec => []SuccessIsComplete
<1>1. IInv => SuccessIsComplete
  <2> SUFFICES ASSUME IInv, pc = "idle", result = "ok", ~lagging
               PROVE  radio = "verified" /\ \A a \in matches \ retained : addon[a] = "started"
    BY DEF SuccessIsComplete
  <2>1. QED
    BY DEF IInv, RestoreInv, Restoring
<1>2. QED
  BY InductiveInvariant, <1>1, PTL

\* Only what a transaction stopped and may restore is started.
THEOREM OnlyStoppedIsStarted == Spec => StartsOnlyWhatItStopped
<1> DEFINE Started ==
      \A a \in Addons :
         ~lagging /\ addon[a] # "started" /\ addon'[a] = "started" =>
             a \in stopped \ retained /\ radio # "uncertain"
<1>1. IInv /\ [Next]_vars => [Started]_vars
  <2> SUFFICES ASSUME IInv, [Next]_vars, ~lagging, NEW a \in Addons,
                      addon[a] # "started", addon'[a] = "started"
               PROVE  a \in stopped \ retained /\ radio # "uncertain"
    OBVIOUS
  <2>1. RestoreAddon
    <3>1. ~Internal
      BY InternalLeavesSupervisor DEF supervisorVars
    <3>2. ~(StopAddon \/ StopAddonFails)
      BY StopEffect
    <3>3. ~\E b \in Addons : Finish(b)
      BY NoLateEffect
    <3>4. QED
      BY <3>1, <3>2, <3>3, Cases
  <2>2. a = Last /\ a \in todo
    BY <2>1, StartEffect
  <2>3. pc \in Restoring
    BY <2>1, RestoreEffect
  <2>4. QED
    BY <2>2, <2>3 DEF IInv, RestoreInv, UncertainInv
<1>2. QED
  BY InductiveInvariant, <1>1, PTL DEF Spec, StartsOnlyWhatItStopped
=============================================================================
