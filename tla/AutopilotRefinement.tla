------------------------- MODULE AutopilotRefinement -------------------------
(***************************************************************************)
(* The controllers over the store implement AutopilotContract: the         *)
(* contract's variables are functions of the stored rows alone.            *)
(***************************************************************************)
EXTENDS AutopilotController

PhaseOf(row) ==
    IF row.status \in Active THEN "held"
    ELSE IF row.status \in Resumable THEN "open"
    ELSE IF row.status = "completed" THEN "completed"
    ELSE IF row.status \in Terminal THEN "ended"
    ELSE "none"

LedgerOf(row) ==
    [plan |-> row.plan, criteria |-> row.criteria, cycles |-> row.cycles,
     failures |-> row.failures, checkpoints |-> row.checkpoints,
     replans |-> row.replans]

Contract == INSTANCE AutopilotContract WITH
    Holders <- Owners, Nobody <- NoOwner, Verified <- CompletionGate,
    phase <- [r \in Runs |-> PhaseOf(runs[r])],
    holder <- [r \in Runs |-> runs[r].owner],
    frozen <- [r \in Runs |-> runs[r].cancelReq],
    ledger <- [r \in Runs |-> LedgerOf(runs[r])]

\* Everything the contract promises holds of the code: the controllers' steps
\* are commits of the one holder, releases, or invisible.
ImplementsContract == Contract!Spec
=============================================================================
