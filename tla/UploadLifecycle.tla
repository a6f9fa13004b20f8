--------------------------- MODULE UploadLifecycle ---------------------------
(***************************************************************************)
(* What the add-on promises about uploads, with no threads, locks, queue   *)
(* or registry: each upload is a one-shot authorisation.                   *)
(*                                                                         *)
(*   absent -> received -> staged -> queued -> flashing -> gone            *)
(*                                                                         *)
(* with a fall to "gone" from every state but "flashing", and from         *)
(* "queued" only because of a shutdown.                                    *)
(***************************************************************************)
CONSTANT Artifacts

VARIABLES
    life,     \* life[u]: the state of upload u
    stopping  \* a shutdown was requested

vars == <<life, stopping>>

States == {"absent", "received", "staged", "queued", "flashing", "gone"}
Pending == {u \in Artifacts : life[u] \in {"queued", "flashing"}}
Staged == {u \in Artifacts : life[u] = "staged"}

Init ==
    /\ life = [u \in Artifacts |-> "absent"]
    /\ stopping = FALSE

Move(S, to) == life' = [u \in Artifacts |-> IF u \in S THEN to ELSE life[u]]

\* A file for a new upload.
Receive(u) ==
    /\ life[u] = "absent"
    /\ Move({u}, "received")
    /\ UNCHANGED stopping

\* The upload is validated: it replaces what was staged, and nothing is
\* pending while it is.
Keep(u) ==
    /\ life[u] = "received"
    /\ Pending = {}
    /\ life' = [v \in Artifacts |->
                  IF v = u THEN "staged"
                  ELSE IF v \in Staged THEN "gone" ELSE life[v]]
    /\ UNCHANGED stopping

\* Rejected, expired or swept at shutdown, possibly several at once.
Forget ==
    /\ \E S \in SUBSET {u \in Artifacts : life[u] \in {"received", "staged"}} :
        Move(S, "gone")
    /\ UNCHANGED stopping

\* The user confirmed the one staged upload while nothing was pending.
Accept(u) ==
    /\ life[u] = "staged"
    /\ Pending = {}
    /\ Move({u}, "queued")
    /\ UNCHANGED stopping

Start(u) ==
    /\ life[u] = "queued"
    /\ ~stopping
    /\ Move({u}, "flashing")
    /\ UNCHANGED stopping

Finish(u) ==
    /\ life[u] = "flashing"
    /\ Move({u}, "gone")
    /\ UNCHANGED stopping

Discard(u) ==
    /\ life[u] = "queued"
    /\ stopping
    /\ Move({u}, "gone")
    /\ UNCHANGED stopping

Stop ==
    /\ stopping' = TRUE
    /\ UNCHANGED life

Next ==
    \/ \E u \in Artifacts :
        Receive(u) \/ Keep(u) \/ Accept(u) \/ Start(u) \/ Finish(u) \/ Discard(u)
    \/ Forget
    \/ Stop

Spec == Init /\ [][Next]_vars
=============================================================================
