--------------------------- MODULE AutopilotStore ---------------------------
(***************************************************************************)
(* The durable autopilot ledger (autopilot_store.py).  Every operation is  *)
(* one BEGIN IMMEDIATE transaction on one SQLite row, so every operation   *)
(* is one action.  The clock is abstracted to what reconciliation reads of *)
(* it: a lease is "live", "expired" or (NULL) "none".                      *)
(***************************************************************************)
EXTENDS Naturals, Sequences, FiniteSets

CONSTANTS
    Runs,        \* run ids
    Owners,      \* controller invocation ids ("auto-<pid>-<time_ns>")
    NoOwner,     \* the empty owner_id
    Keep,        \* an argument left at None: the column is not assigned
    MaxTasks     \* max_tasks of a run

Kinds == {"inspect", "research", "implement", "validate", "report"}
TaskStatuses == {"pending", "running", "passed", "failed", "superseded"}

\* attempts is only ever compared with this limit, so it saturates there.
AttemptCap == 2

\* One task of the plan; validated says that it is a validation whose receipt
\* has validation_passed, the only part of a receipt that is ever read again.
Task == [kind : Kinds, status : TaskStatuses, attempts : 0..AttemptCap,
         validated : BOOLEAN]

ASSUME StoreAssumption ==
    /\ NoOwner \notin Owners
    /\ Keep \notin Seq(Task) /\ Keep \notin Nat
    /\ Keep \notin BOOLEAN /\ Keep # "running"
    /\ MaxTasks \in Nat

VARIABLE runs    \* the autopilot_runs table

-----------------------------------------------------------------------------
Active == {"planning", "running"}
Resumable == {"ready", "paused", "blocked", "interrupted"}
Terminal == {"completed", "failed", "cancelled"}

\* "absent" stands for a run id no row has been inserted for.
Statuses == Active \cup Resumable \cup Terminal \cup {"absent"}

Row ==
    [status : Statuses,
     plan : Seq(Task),
     criteria : BOOLEAN,          \* criteria_json holds at least one criterion
     cycles : Nat, failures : Nat, checkpoints : Nat, replans : Nat,
     owner : Owners \cup {NoOwner},
     lease : {"none", "live", "expired"},
     pauseReq : BOOLEAN,
     cancelReq : BOOLEAN,
     current : 0..MaxTasks]       \* current_task, 0 for NULL

AbsentRow ==
    [status |-> "absent", plan |-> <<>>, criteria |-> FALSE,
     cycles |-> 0, failures |-> 0, checkpoints |-> 0, replans |-> 0,
     owner |-> NoOwner, lease |-> "none",
     pauseReq |-> FALSE, cancelReq |-> FALSE, current |-> 0]

\* The arguments of save_progress that reach the row.
Updates ==
    [plan : Seq(Task) \cup {Keep}, criteria : {TRUE, Keep},
     status : {"running", Keep}, current : 0..MaxTasks \cup {Keep},
     cycles : {0, 1}, failures : {0, 1},
     checkpoints : {0, 1}, replans : {0, 1}]

NullUpdate ==
    [plan |-> Keep, criteria |-> Keep, status |-> Keep, current |-> Keep,
     cycles |-> 0, failures |-> 0, checkpoints |-> 0, replans |-> 0]

\* What finish_run may set: it releases the run or ends it.
FinishStatuses == {"paused", "blocked"} \cup Terminal

Given(new, old) == IF new = Keep THEN old ELSE new

-----------------------------------------------------------------------------
\* Row transformers: the SET clauses of the UPDATE statements.

Disowned(row) == [row EXCEPT !.owner = NoOwner, !.lease = "none"]

Claimed(row, o) ==
    [row EXCEPT
        !.status = IF row.plan = <<>> THEN "planning" ELSE "running",
        !.owner = o, !.lease = "live", !.pauseReq = FALSE]

Saved(row, u) ==
    [row EXCEPT
        !.plan = Given(u.plan, @), !.criteria = Given(u.criteria, @),
        !.status = Given(u.status, @), !.current = Given(u.current, @),
        !.cycles = @ + u.cycles, !.failures = @ + u.failures,
        !.checkpoints = @ + u.checkpoints, !.replans = @ + u.replans,
        !.lease = "live"]

Finished(row, s) ==
    [Disowned(row) EXCEPT !.status = s, !.pauseReq = FALSE, !.current = 0]

\* Mutation: reconciliation forgets current_task.
InterruptedKeepsTask(row) == [Disowned(row) EXCEPT !.status = "interrupted"]

Interrupted(row) ==
    [Disowned(row) EXCEPT !.status = "interrupted", !.current = 0]

\* The WHERE clauses that decide whether an UPDATE reaches the row.

IsActive(r) == runs[r].status \in Active

OwnedBy(r, o) == IsActive(r) /\ runs[r].owner = o

CanClaim(r, o) ==
    /\ runs[r].status \notin Terminal \cup {"absent"}
    /\ ~ runs[r].cancelReq
    /\ IsActive(r) => runs[r].owner = o

\* Mutation: save_progress without AND cancel_requested=0.
CanSaveAfterCancel(r, o) == OwnedBy(r, o)

CanSave(r, o) == OwnedBy(r, o) /\ ~ runs[r].cancelReq

\* Mutation: only dead processes are reconciled, expired leases are not.
StaleDeadOnly(D) == {r \in Runs : IsActive(r) /\ runs[r].owner \in D}

\* Rows reconciliation interrupts when it believes the owners in D dead.
Stale(D) ==
    {r \in Runs : IsActive(r) /\ (runs[r].lease # "live" \/ runs[r].owner \in D)}

-----------------------------------------------------------------------------
\* The operations.  One that finds no matching row changes nothing.

CreateRun(r) ==
    /\ runs[r].status = "absent"
    /\ runs' = [runs EXCEPT ![r].status = "ready"]

ClaimRun(r, o) ==
    /\ CanClaim(r, o)
    /\ runs' = [runs EXCEPT ![r] = Claimed(@, o)]

SaveProgress(r, o, u) ==
    /\ CanSave(r, o)
    /\ runs' = [runs EXCEPT ![r] = Saved(@, u)]

Heartbeat(r, o) ==
    /\ OwnedBy(r, o)
    /\ runs' = [runs EXCEPT ![r].lease = "live"]

FinishRun(r, o, s) ==
    /\ OwnedBy(r, o)
    /\ runs' = [runs EXCEPT ![r] = Finished(@, s)]

RequestPause(r) ==
    /\ runs[r].status \notin Terminal \cup {"absent"}
    /\ runs' = [runs EXCEPT ![r] =
                   IF IsActive(r)
                     THEN [@ EXCEPT !.pauseReq = TRUE]
                     ELSE [Disowned(@) EXCEPT !.status = "paused",
                                              !.pauseReq = FALSE]]

RequestCancel(r) ==
    /\ runs[r].status \notin Terminal \cup {"absent"}
    /\ runs' = [runs EXCEPT ![r] =
                   IF IsActive(r)
                     THEN [@ EXCEPT !.cancelReq = TRUE]
                     ELSE [Disowned(@) EXCEPT !.status = "cancelled",
                                              !.cancelReq = TRUE]]

ReconcileStaleRuns(D) ==
    runs' = [r \in Runs |-> IF r \in Stale(D) THEN Interrupted(runs[r])
                                              ELSE runs[r]]

\* The wall clock passes lease_until before anyone renews it.
LeaseExpires(r) ==
    /\ runs[r].lease = "live"
    /\ runs' = [runs EXCEPT ![r].lease = "expired"]

-----------------------------------------------------------------------------
\* Every row has the columns and domains of the schema.
TypeOK == runs \in [Runs -> Row]

\* A run is being executed exactly while it names an owner and carries a
\* lease: no operation leaves a running row nobody can be held to, nor an
\* owner behind on a row that is no longer running (claim, finish, pause,
\* cancel and reconciliation must all agree on this).
OwnershipCoherent ==
    \A r \in Runs :
        /\ IsActive(r) <=> runs[r].owner # NoOwner
        /\ IsActive(r) <=> runs[r].lease # "none"
        /\ runs[r].current # 0 => IsActive(r)

\* A run that completed, failed or was cancelled keeps that row for ever:
\* no late save, finish, heartbeat or resume reaches it.
TerminalIsFinal ==
    [][\A r \in Runs : runs[r].status \in Terminal => runs'[r] = runs[r]]_runs

\* request_cancel promises that the active task's result is discarded: once a
\* cancel is recorded, the ledger and its counters never change again and
\* the request is never withdrawn, whoever still executes.
CancelFreezesLedger ==
    [][\A r \in Runs : runs[r].cancelReq =>
          /\ runs'[r].cancelReq
          /\ runs'[r].plan = runs[r].plan
          /\ runs'[r].criteria = runs[r].criteria
          /\ runs'[r].cycles = runs[r].cycles
          /\ runs'[r].failures = runs[r].failures
          /\ runs'[r].checkpoints = runs[r].checkpoints
          /\ runs'[r].replans = runs[r].replans]_runs

\* Ownership moves only through an unowned row: a claim never takes a run
\* from an owner that still holds it, however stale that owner is.
NoOwnershipTheft ==
    [][\A r \in Runs : runs[r].owner # NoOwner =>
          runs'[r].owner \in {runs[r].owner, NoOwner}]_runs
=============================================================================
