-------------------------- MODULE AutopilotContract --------------------------
(***************************************************************************)
(* What the autopilot promises about a run, without controllers, reviews,  *)
(* leases or budgets.  A run is open, held by exactly one controller, or   *)
(* closed for good.  Only the holder commits to the ledger, never after a  *)
(* cancel was recorded, and a run closes as completed only with a verified *)
(* ledger.  A held run is eventually let go.                               *)
(***************************************************************************)
CONSTANTS
    Runs, Holders, Nobody,
    Verified(_)     \* the host's completion gate on a ledger

VARIABLES
    phase,      \* "none", "open", "held", "completed" or "ended"
    holder,     \* the controller that holds the run
    frozen,     \* a cancel was recorded
    ledger      \* the committed work

vars == <<phase, holder, frozen, ledger>>

Move(r, from, to) == phase[r] = from /\ phase' = [phase EXCEPT ![r] = to]

Vacate(r) == holder' = [holder EXCEPT ![r] = Nobody]

Create(r) == Move(r, "none", "open") /\ UNCHANGED <<holder, frozen, ledger>>

Take(r, o) ==
    /\ Move(r, "open", "held")
    /\ ~ frozen[r]
    /\ holder' = [holder EXCEPT ![r] = o]
    /\ UNCHANGED <<frozen, ledger>>

\* The holder commits some new ledger for r, and no other run's ledger moves.
Commit(r) ==
    /\ phase[r] = "held" /\ ~ frozen[r]
    /\ \A q \in Runs \ {r} : ledger'[q] = ledger[q]
    /\ UNCHANGED <<phase, holder, frozen>>

\* Paused, blocked or interrupted: the runs in R, which one reconciliation
\* may find together, are open again.
Drop(R) ==
    /\ \A r \in R : phase[r] = "held"
    /\ phase' = [r \in Runs |-> IF r \in R THEN "open" ELSE phase[r]]
    /\ holder' = [r \in Runs |-> IF r \in R THEN Nobody ELSE holder[r]]
    /\ UNCHANGED <<frozen, ledger>>

Complete(r) ==
    /\ Move(r, "held", "completed")
    /\ Verified(ledger[r])
    /\ Vacate(r)
    /\ UNCHANGED <<frozen, ledger>>

End(r) == Move(r, "held", "ended") /\ Vacate(r) /\ UNCHANGED <<frozen, ledger>>

\* A cancel ends an open run at once and freezes a held one.
Cancel(r) ==
    /\ frozen' = [frozen EXCEPT ![r] = TRUE]
    /\ Move(r, "open", "ended") \/ (phase[r] = "held" /\ UNCHANGED phase)
    /\ UNCHANGED <<holder, ledger>>

LetGo(r) ==
    \/ \E R \in SUBSET Runs : r \in R /\ Drop(R)
    \/ Complete(r)
    \/ End(r)

Next ==
    \E r \in Runs :
        \/ Create(r) \/ Commit(r) \/ LetGo(r) \/ Cancel(r)
        \/ \E o \in Holders : Take(r, o)

Init ==
    /\ phase = [r \in Runs |-> "none"]
    /\ holder = [r \in Runs |-> Nobody]
    /\ frozen = [r \in Runs |-> FALSE]

Safety == Init /\ [][Next]_vars

Spec == Safety /\ \A r \in Runs : WF_vars(LetGo(r))
=============================================================================
