---------------------------- MODULE HandoffWindow ----------------------------
(***************************************************************************)
(* The time window in which a bootloader with a changed serial is accepted *)
(* as the one B01 led to: _store_handoff_pending() and                     *)
(* _handoff_descriptor_change_is_current() of app/flasher.py.              *)
(*                                                                         *)
(* The record holds a wall-clock deadline in whole seconds.  Real time     *)
(* passes in half seconds and carries the clock with it; the clock may     *)
(* also be set forward, as it is when a host without a real-time clock has *)
(* booted and reached the network, and the boot_timeout option may be      *)
(* another one after a restart.  A clock that is set back opens a window   *)
(* again that has closed; nothing bounds it then.                          *)
(***************************************************************************)
EXTENDS Integers

CONSTANTS
    Timeouts,   \* what _post_dfu_timeout() can be
    MaxTime,    \* bound: half seconds that pass, and the clock's range
    NoDeadline  \* Python's None, in place of a deadline

ASSUME TimeoutsAssumption == Timeouts \subseteq Nat
ASSUME MaxTimeAssumption == MaxTime \in Nat
ASSUME NoDeadlineAssumption == NoDeadline \notin Int

VARIABLES
    passed,     \* half seconds since the model began
    clock,      \* the wall clock, in half seconds
    timeout,    \* _post_dfu_timeout()
    deadline,   \* handoff_deadline of the record, or NoDeadline
    saved,      \* when the record was saved, in real time
    allowed,    \* _post_dfu_timeout() when it was saved
    steady,     \* neither the clock nor the timeout was changed since
    accepted    \* was a changed serial accepted in this state?

windowVars == <<passed, clock, timeout, deadline, saved, allowed, steady, accepted>>

WindowTypeOK ==
    /\ passed \in 0..MaxTime
    /\ clock \in Nat
    /\ timeout \in Timeouts
    /\ deadline \in Nat \cup {NoDeadline}
    /\ deadline # NoDeadline => deadline >= allowed
    /\ saved \in 0..passed
    /\ allowed \in Timeouts
    /\ steady \in BOOLEAN
    /\ accepted \in BOOLEAN

\* int(self._time())
Seconds(t) == t \div 2

WindowInit ==
    /\ passed = 0
    /\ clock \in 0..MaxTime
    /\ timeout \in Timeouts
    /\ deadline = NoDeadline
    /\ saved = 0
    /\ allowed = timeout
    /\ steady = TRUE
    /\ accepted = FALSE

Tick ==
    /\ passed < MaxTime
    /\ passed' = passed + 1
    /\ clock' = clock + 1
    /\ accepted' = FALSE
    /\ UNCHANGED <<timeout, deadline, saved, allowed, steady>>

SetClock(t) ==
    /\ t > clock
    /\ clock' = t
    /\ steady' = FALSE
    /\ accepted' = FALSE
    /\ UNCHANGED <<passed, timeout, deadline, saved, allowed>>

\* The add-on is restarted with another boot_timeout.
SetTimeout(t) ==
    /\ timeout' = t
    /\ steady' = FALSE
    /\ accepted' = FALSE
    /\ UNCHANGED <<passed, clock, deadline, saved, allowed>>

StoreHandoffPending ==
    /\ deadline' = Seconds(clock) + timeout
    /\ saved' = passed
    /\ allowed' = timeout
    /\ steady' = TRUE
    /\ accepted' = FALSE
    /\ UNCHANGED <<passed, clock, timeout>>

\* Fault variants of ChangeIsCurrent: the boundary is refused; a deadline that
\* has passed is accepted for as long again.
ChangeIsCurrentShort ==
    deadline # NoDeadline /\ deadline - Seconds(clock) \in 1..(timeout - 1)

ChangeIsCurrentWide ==
    deadline # NoDeadline /\ deadline - Seconds(clock) \in (-timeout)..timeout

\* _handoff_descriptor_change_is_current()
ChangeIsCurrent ==
    deadline # NoDeadline /\ deadline - Seconds(clock) \in 0..timeout

\* A bootloader with another serial than the record's is looked at.
Check ==
    /\ accepted' = ChangeIsCurrent
    /\ UNCHANGED <<passed, clock, timeout, deadline, saved, allowed, steady>>

WindowNext ==
    \/ Tick
    \/ \E t \in 0..MaxTime : SetClock(t)
    \/ \E t \in Timeouts : SetTimeout(t)
    \/ StoreHandoffPending
    \/ Check

WindowSpec == WindowInit /\ [][WindowNext]_windowVars

----------------------------------------------------------------------------
(* Properties                                                              *)

\* A changed serial is accepted for less than a second longer than the timeout
\* the handoff was given, in real time, whatever the option is changed to and
\* however far the clock is set forward: README, "The window lasts no longer
\* than the post-DFU timeout", but for the fraction that int() drops.
WindowIsBounded == accepted => passed - saved <= 2 * allowed + 1

\* On a steady host the whole timeout may be used: an interrupted handoff is
\* recovered without the operator up to its last half second.
WindowIsUsable == deadline # NoDeadline /\ steady /\ passed - saved <= 2 * allowed => ChangeIsCurrent
=============================================================================
