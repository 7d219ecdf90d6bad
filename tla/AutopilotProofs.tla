-------------------------- MODULE AutopilotProofs --------------------------
(***************************************************************************)
(* Theorems about the autopilot, for any number of runs, controllers,      *)
(* tasks and budgets.                                                      *)
(*                                                                         *)
(* The first section says what an operation of the ledger does to one row, *)
(* for every specification whose steps use the operations of               *)
(* AutopilotStore, and proves the theorems about the ledger under every    *)
(* client that uses them.                                                  *)
(*                                                                         *)
(* The others are about execute_run over the shared ledger.  Their         *)
(* inductive invariant says of every controller that, while the row still  *)
(* names it as the owner, its copy of the row is the row.  A second one,   *)
(* LedgerInv, ties the plan and the counters of a row to what the          *)
(* controller that saves it next has checked of them; a third one,         *)
(* HistoryInv, says that who executes a run is its owner, and where it     *)
(* stands once a pause was asked for.  The last section shows that every   *)
(* step is one AutopilotContract allows, or is invisible to it.            *)
(***************************************************************************)
EXTENDS AutopilotClients, AutopilotHistory, AutopilotRefinement,
        SequenceTheorems, TLAPS

\* One step of the store changes at most one row, or interrupts stale ones.
\* RowStep lists, for one row, everything an operation can do to it.
RowStep(r) ==
    \/ runs'[r] = runs[r]
    \/ runs[r].status = "absent" /\ runs'[r] = [runs[r] EXCEPT !.status = "ready"]
    \/ \E o \in Owners : CanClaim(r, o) /\ runs'[r] = Claimed(runs[r], o)
    \/ \E o \in Owners, u \in Updates :
          CanSave(r, o) /\ runs'[r] = Saved(runs[r], u)
    \/ \E o \in Owners :
          OwnedBy(r, o) /\ runs'[r] = [runs[r] EXCEPT !.lease = "live"]
    \/ \E o \in Owners, s \in FinishStatuses :
          OwnedBy(r, o) /\ runs'[r] = Finished(runs[r], s)
    \/ IsActive(r) /\ runs'[r] = [runs[r] EXCEPT !.pauseReq = TRUE]
    \/ IsActive(r) /\ runs'[r] = [runs[r] EXCEPT !.cancelReq = TRUE]
    \/ /\ runs[r].status \in Resumable
       /\ runs'[r] = [Disowned(runs[r]) EXCEPT !.status = "paused",
                                               !.pauseReq = FALSE]
    \/ /\ runs[r].status \in Resumable
       /\ runs'[r] = [Disowned(runs[r]) EXCEPT !.status = "cancelled",
                                               !.cancelReq = TRUE]
    \/ IsActive(r) /\ runs'[r] = Interrupted(runs[r])
    \/ runs[r].lease = "live" /\ runs'[r] = [runs[r] EXCEPT !.lease = "expired"]

\* A save writes values of the columns' domains.
LEMMA SavedIsRow ==
    ASSUME NEW row \in Row, NEW u \in Updates
    PROVE  /\ Saved(row, u) \in Row
           /\ Saved(row, u).owner = row.owner
           /\ Saved(row, u).lease = "live"
           /\ Saved(row, u).status \in {row.status, "running"}
<1>1. u.plan # Keep => u.plan \in Seq(Task)
  BY DEF Updates
<1>2. u.current # Keep => u.current \in 0..MaxTasks
  BY DEF Updates
<1>3. u.status # Keep => u.status = "running"
  BY DEF Updates
<1>4. u.criteria # Keep => u.criteria \in BOOLEAN
  BY DEF Updates
<1>5. /\ u.cycles \in Nat /\ u.failures \in Nat
      /\ u.checkpoints \in Nat /\ u.replans \in Nat
  BY DEF Updates
<1>6. /\ Given(u.plan, row.plan) \in Seq(Task)
      /\ Given(u.current, row.current) \in 0..MaxTasks
      /\ Given(u.status, row.status) \in {row.status, "running"}
      /\ Given(u.status, row.status) \in Statuses
  BY <1>1, <1>2, <1>3 DEF Given, Row, Statuses, Active
<1>7. Given(u.criteria, row.criteria) \in BOOLEAN
  BY <1>4 DEF Given, Row
<1>8. /\ row.cycles + u.cycles \in Nat /\ row.failures + u.failures \in Nat
      /\ row.checkpoints + u.checkpoints \in Nat
      /\ row.replans + u.replans \in Nat
  <2>1. /\ row.cycles \in Nat /\ row.failures \in Nat
        /\ row.checkpoints \in Nat /\ row.replans \in Nat
    BY DEF Row
  <2>2. QED BY <1>5, <2>1
<1>9. QED
  BY <1>6, <1>7, <1>8 DEF Saved, Row

\* The ledger columns, which no operation but a save assigns.
SameLedger(new, old) ==
    /\ new.plan = old.plan /\ new.criteria = old.criteria
    /\ new.cycles = old.cycles /\ new.failures = old.failures
    /\ new.checkpoints = old.checkpoints /\ new.replans = old.replans

LEMMA ClaimedIsRow ==
    ASSUME NEW row \in Row, NEW o \in Owners
    PROVE  /\ Claimed(row, o) \in Row
           /\ SameLedger(Claimed(row, o), row)
           /\ Claimed(row, o).status \in Active
           /\ Claimed(row, o).owner = o
           /\ Claimed(row, o).lease = "live"
           /\ Claimed(row, o).cancelReq = row.cancelReq
           /\ Claimed(row, o).current = row.current
<1>1. PICK s \in Active :
        Claimed(row, o) = [row EXCEPT !.status = s, !.owner = o,
                                      !.lease = "live", !.pauseReq = FALSE]
  BY DEF Claimed, Active
<1>2. QED BY ZenonT(60), <1>1 DEF Row, Statuses, SameLedger

LEMMA DisownedIsRow ==
    ASSUME NEW row \in Row
    PROVE  /\ Disowned(row) \in Row
           /\ SameLedger(Disowned(row), row)
           /\ Disowned(row).owner = NoOwner
           /\ Disowned(row).lease = "none"
           /\ Disowned(row).cancelReq = row.cancelReq
           /\ Disowned(row).current = row.current
BY DEF Disowned, Row, SameLedger

LEMMA FinishedIsRow ==
    ASSUME NEW row \in Row, NEW s \in FinishStatuses
    PROVE  /\ Finished(row, s) \in Row
           /\ SameLedger(Finished(row, s), row)
           /\ Finished(row, s).status = s
           /\ Finished(row, s).owner = NoOwner
           /\ Finished(row, s).lease = "none"
           /\ Finished(row, s).cancelReq = row.cancelReq
           /\ Finished(row, s).current = 0
<1>1. s \in Statuses
  BY DEF FinishStatuses, Statuses, Resumable
<1>2. 0 \in 0..MaxTasks
  BY StoreAssumption
<1> DEFINE base == Disowned(row)
<1>3. base \in Row
  BY DisownedIsRow
<1>4. Finished(row, s) = [base EXCEPT !.status = s, !.pauseReq = FALSE,
                                      !.current = 0]
  BY DEF Finished
<1> HIDE DEF base
<1>5. /\ Finished(row, s) \in Row
      /\ SameLedger(Finished(row, s), base)
      /\ Finished(row, s).status = s
      /\ Finished(row, s).owner = base.owner
      /\ Finished(row, s).lease = base.lease
      /\ Finished(row, s).cancelReq = base.cancelReq
      /\ Finished(row, s).current = 0
  BY ZenonT(60), <1>1, <1>2, <1>3, <1>4 DEF Row, SameLedger
<1>6. QED
  BY <1>5, DisownedIsRow DEF SameLedger, base

LEMMA InterruptedIsRow ==
    ASSUME NEW row \in Row
    PROVE  /\ Interrupted(row) \in Row
           /\ SameLedger(Interrupted(row), row)
           /\ Interrupted(row).status = "interrupted"
           /\ Interrupted(row).owner = NoOwner
           /\ Interrupted(row).lease = "none"
           /\ Interrupted(row).cancelReq = row.cancelReq
           /\ Interrupted(row).current = 0
<1>1. 0 \in 0..MaxTasks /\ "interrupted" \in Statuses
  BY StoreAssumption DEF Statuses, Resumable
<1> DEFINE base == Disowned(row)
<1>2. base \in Row
  BY DisownedIsRow
<1>3. Interrupted(row) = [base EXCEPT !.status = "interrupted", !.current = 0]
  BY DEF Interrupted
<1> HIDE DEF base
<1>4. /\ Interrupted(row) \in Row
      /\ SameLedger(Interrupted(row), base)
      /\ Interrupted(row).status = "interrupted"
      /\ Interrupted(row).owner = base.owner
      /\ Interrupted(row).lease = base.lease
      /\ Interrupted(row).cancelReq = base.cancelReq
      /\ Interrupted(row).current = 0
  BY ZenonT(60), <1>1, <1>2, <1>3 DEF Row, SameLedger
<1>5. QED
  BY <1>4, DisownedIsRow DEF SameLedger, base

\* What one step may do to a row that satisfies the schema and the ownership
\* invariant: both are preserved.
RowOwnership(row) ==
    /\ row.status \in Active <=> row.owner # NoOwner
    /\ row.status \in Active <=> row.lease # "none"
    /\ row.current # 0 => row.status \in Active

LEMMA RowStepPreserves ==
    ASSUME NEW r \in Runs, runs[r] \in Row, RowOwnership(runs[r]), RowStep(r)
    PROVE  runs'[r] \in Row /\ RowOwnership(runs'[r])
<1> USE StoreAssumption DEF RowOwnership, IsActive, OwnedBy, Active
<1>1. CASE runs'[r] = runs[r]
  BY <1>1
<1>2. CASE /\ runs[r].status = "absent"
           /\ runs'[r] = [runs[r] EXCEPT !.status = "ready"]
  BY <1>2 DEF Row, Statuses, Resumable
<1>3. CASE \E o \in Owners : CanClaim(r, o) /\ runs'[r] = Claimed(runs[r], o)
  <2>1. PICK o \in Owners : CanClaim(r, o) /\ runs'[r] = Claimed(runs[r], o)
    BY <1>3
  <2>2. QED BY <2>1, ClaimedIsRow DEF CanClaim
<1>4. CASE \E o \in Owners, u \in Updates :
              CanSave(r, o) /\ runs'[r] = Saved(runs[r], u)
  <2>1. PICK o \in Owners, u \in Updates :
              CanSave(r, o) /\ runs'[r] = Saved(runs[r], u)
    BY <1>4
  <2>2. QED BY <2>1, SavedIsRow DEF CanSave
<1>5. CASE \E o \in Owners :
              OwnedBy(r, o) /\ runs'[r] = [runs[r] EXCEPT !.lease = "live"]
  BY SMTT(30), <1>5 DEF Row
<1>6. CASE \E o \in Owners, s \in FinishStatuses :
              OwnedBy(r, o) /\ runs'[r] = Finished(runs[r], s)
  <2>1. PICK o \in Owners, s \in FinishStatuses :
              OwnedBy(r, o) /\ runs'[r] = Finished(runs[r], s)
    BY <1>6
  <2>2. s \notin Active
    BY DEF FinishStatuses, Terminal
  <2>3. QED BY <2>1, <2>2, FinishedIsRow
<1>7. CASE IsActive(r) /\ runs'[r] = [runs[r] EXCEPT !.pauseReq = TRUE]
  BY <1>7 DEF Row
<1>8. CASE IsActive(r) /\ runs'[r] = [runs[r] EXCEPT !.cancelReq = TRUE]
  BY <1>8 DEF Row
<1>9. CASE /\ runs[r].status \in Resumable
           /\ runs'[r] = [Disowned(runs[r]) EXCEPT !.status = "paused",
                                                   !.pauseReq = FALSE]
  BY <1>9 DEF Row, Statuses, Disowned, Resumable
<1>10. CASE /\ runs[r].status \in Resumable
            /\ runs'[r] = [Disowned(runs[r]) EXCEPT !.status = "cancelled",
                                                    !.cancelReq = TRUE]
  BY <1>10 DEF Row, Statuses, Disowned, Resumable, Terminal
<1>11. CASE IsActive(r) /\ runs'[r] = Interrupted(runs[r])
  BY <1>11, InterruptedIsRow
<1>12. CASE /\ runs[r].lease = "live"
            /\ runs'[r] = [runs[r] EXCEPT !.lease = "expired"]
  BY <1>12 DEF Row
<1>13. QED
  BY <1>1, <1>2, <1>3, <1>4, <1>5, <1>6, <1>7, <1>8, <1>9, <1>10, <1>11, <1>12
  DEF RowStep

\* The row of an ended run stays as it is.
LEMMA RowStepKeepsEnded ==
    ASSUME NEW r \in Runs, RowOwnership(runs[r]), runs[r].status \in Terminal,
           RowStep(r)
    PROVE  runs'[r] = runs[r]
BY DEF RowStep, RowOwnership, CanClaim, CanSave, OwnedBy, IsActive, Active,
       Terminal, Resumable

\* A row that somebody asked to cancel keeps its ledger and the request.
LEMMA RowStepFreezes ==
    ASSUME NEW r \in Runs, runs[r] \in Row, runs[r].cancelReq, RowStep(r)
    PROVE  runs'[r].cancelReq /\ SameLedger(runs'[r], runs[r])
<1>1. \A o \in Owners : ~ CanClaim(r, o) /\ ~ CanSave(r, o)
  BY DEF CanClaim, CanSave
<1>2. \A row \in Row : row = Disowned(runs[r]) =>
        /\ SameLedger([row EXCEPT !.status = "paused", !.pauseReq = FALSE], runs[r])
        /\ [row EXCEPT !.status = "paused", !.pauseReq = FALSE].cancelReq
        /\ SameLedger([row EXCEPT !.status = "cancelled", !.cancelReq = TRUE],
                      runs[r])
        /\ [row EXCEPT !.status = "cancelled", !.cancelReq = TRUE].cancelReq
  BY DisownedIsRow DEF Row, SameLedger
<1>3. \A lease \in {"live", "expired"} :
        LET row == [runs[r] EXCEPT !.lease = lease]
        IN  row.cancelReq /\ SameLedger(row, runs[r])
  BY DEF Row, SameLedger
<1>4. /\ [runs[r] EXCEPT !.status = "ready"].cancelReq
      /\ SameLedger([runs[r] EXCEPT !.status = "ready"], runs[r])
      /\ [runs[r] EXCEPT !.pauseReq = TRUE].cancelReq
      /\ SameLedger([runs[r] EXCEPT !.pauseReq = TRUE], runs[r])
      /\ [runs[r] EXCEPT !.cancelReq = TRUE].cancelReq
      /\ SameLedger([runs[r] EXCEPT !.cancelReq = TRUE], runs[r])
  BY DEF Row, SameLedger
<1>5. SameLedger(runs[r], runs[r])
  BY DEF SameLedger
<1>6. ASSUME NEW s \in FinishStatuses, runs'[r] = Finished(runs[r], s)
      PROVE  runs'[r].cancelReq /\ SameLedger(runs'[r], runs[r])
  BY <1>6, FinishedIsRow
<1>7. ASSUME runs'[r] = Interrupted(runs[r])
      PROVE  runs'[r].cancelReq /\ SameLedger(runs'[r], runs[r])
  BY <1>7, InterruptedIsRow
<1>8. Disowned(runs[r]) \in Row
  BY DisownedIsRow
<1>9. QED
  BY <1>1, <1>2, <1>3, <1>4, <1>5, <1>6, <1>7, <1>8 DEF RowStep

\* An operation leaves the owner of an active row alone or removes it.
LEMMA RowStepKeepsOwner ==
    ASSUME NEW r \in Runs, runs[r] \in Row, IsActive(r), RowStep(r)
    PROVE  runs'[r].owner \in {runs[r].owner, NoOwner}
<1>1. runs[r].status # "absent" /\ runs[r].status \notin Resumable
  BY DEF IsActive, Active, Resumable
<1>2. ASSUME NEW o \in Owners, CanClaim(r, o), runs'[r] = Claimed(runs[r], o)
      PROVE  runs'[r].owner \in {runs[r].owner, NoOwner}
  BY <1>2, ClaimedIsRow DEF CanClaim
<1>3. /\ [runs[r] EXCEPT !.lease = "live"].owner = runs[r].owner
      /\ [runs[r] EXCEPT !.lease = "expired"].owner = runs[r].owner
      /\ [runs[r] EXCEPT !.pauseReq = TRUE].owner = runs[r].owner
      /\ [runs[r] EXCEPT !.cancelReq = TRUE].owner = runs[r].owner
  BY DEF Row
<1>4. ASSUME NEW u \in Updates, runs'[r] = Saved(runs[r], u)
      PROVE  runs'[r].owner = runs[r].owner
  BY <1>4, SavedIsRow
<1>5. ASSUME NEW s \in FinishStatuses, runs'[r] = Finished(runs[r], s)
      PROVE  runs'[r].owner = NoOwner
  BY <1>5, FinishedIsRow
<1>6. ASSUME runs'[r] = Interrupted(runs[r])
      PROVE  runs'[r].owner = NoOwner
  BY <1>6, InterruptedIsRow
<1>7. QED
  BY <1>1, <1>2, <1>3, <1>4, <1>5, <1>6 DEF RowStep

\* Each operation, applied to any run, is a RowStep of every run.
LEMMA OperationIsRowStep ==
    ASSUME TypeOK, NEW r \in Runs, NEW q \in Runs,
           \/ CreateRun(q) \/ RequestPause(q) \/ RequestCancel(q)
           \/ LeaseExpires(q)
           \/ \E o \in Owners : ClaimRun(q, o) \/ Heartbeat(q, o)
           \/ \E o \in Owners, u \in Updates : SaveProgress(q, o, u)
           \/ \E o \in Owners, s \in FinishStatuses : FinishRun(q, o, s)
           \/ \E D \in SUBSET Owners : ReconcileStaleRuns(D)
    PROVE  RowStep(r)
<1> USE DEF TypeOK
<1>0. runs[r] \in Row
  OBVIOUS
<1>1. ASSUME CreateRun(q) PROVE RowStep(r)
  BY <1>1 DEF CreateRun, RowStep
<1>2. ASSUME RequestPause(q) PROVE RowStep(r)
  <2>1. CASE q = r /\ IsActive(r)
    BY <1>2, <2>1 DEF RequestPause, RowStep
  <2>2. CASE q = r /\ ~ IsActive(r)
    <3>1. runs[r].status \in Resumable
      BY <1>0, <1>2, <2>2 DEF RequestPause, Row, Statuses, IsActive
    <3>2. QED BY <1>2, <2>2, <3>1 DEF RequestPause, RowStep
  <2>3. CASE q # r
    BY <1>2, <2>3 DEF RequestPause, RowStep
  <2>4. QED BY <2>1, <2>2, <2>3
<1>3. ASSUME RequestCancel(q) PROVE RowStep(r)
  <2>1. CASE q = r /\ IsActive(r)
    BY <1>3, <2>1 DEF RequestCancel, RowStep
  <2>2. CASE q = r /\ ~ IsActive(r)
    <3>1. runs[r].status \in Resumable
      BY <1>0, <1>3, <2>2 DEF RequestCancel, Row, Statuses, IsActive
    <3>2. QED BY <1>3, <2>2, <3>1 DEF RequestCancel, RowStep
  <2>3. CASE q # r
    BY <1>3, <2>3 DEF RequestCancel, RowStep
  <2>4. QED BY <2>1, <2>2, <2>3
<1>4. ASSUME LeaseExpires(q) PROVE RowStep(r)
  BY <1>4 DEF LeaseExpires, RowStep
<1>5. ASSUME NEW o \in Owners, ClaimRun(q, o) PROVE RowStep(r)
  BY <1>5 DEF ClaimRun, RowStep
<1>6. ASSUME NEW o \in Owners, Heartbeat(q, o) PROVE RowStep(r)
  BY <1>6 DEF Heartbeat, RowStep
<1>7. ASSUME NEW o \in Owners, NEW u \in Updates,
             SaveProgress(q, o, u)
      PROVE  RowStep(r)
  BY <1>7 DEF SaveProgress, RowStep
<1>8. ASSUME NEW o \in Owners, NEW s \in FinishStatuses,
             FinishRun(q, o, s)
      PROVE  RowStep(r)
  BY <1>8 DEF FinishRun, RowStep
<1>9. ASSUME NEW D \in SUBSET Owners, ReconcileStaleRuns(D) PROVE RowStep(r)
  <2>1. runs'[r] = IF r \in Stale(D) THEN Interrupted(runs[r]) ELSE runs[r]
    BY <1>9 DEF ReconcileStaleRuns
  <2>2. r \in Stale(D) => IsActive(r)
    BY DEF Stale
  <2>3. QED BY <2>1, <2>2 DEF RowStep
<1>10. QED BY <1>1, <1>2, <1>3, <1>4, <1>5, <1>6, <1>7, <1>8, <1>9

\* Each operation leaves runs a function on Runs.
LEMMA OperationKeepsDomain ==
    ASSUME TypeOK, NEW q \in Runs,
           \/ CreateRun(q) \/ RequestPause(q) \/ RequestCancel(q)
           \/ LeaseExpires(q)
           \/ \E o \in Owners : ClaimRun(q, o) \/ Heartbeat(q, o)
           \/ \E o \in Owners, u \in Updates : SaveProgress(q, o, u)
           \/ \E o \in Owners, s \in FinishStatuses : FinishRun(q, o, s)
           \/ \E D \in SUBSET Owners : ReconcileStaleRuns(D)
    PROVE  runs' = [r \in Runs |-> runs'[r]]
BY DEF TypeOK, CreateRun, RequestPause, RequestCancel, LeaseExpires, ClaimRun,
       Heartbeat, SaveProgress, FinishRun, ReconcileStaleRuns

-----------------------------------------------------------------------------
\* Every step of a client is a RowStep of every row.
LEMMA StepIsRowStep ==
    ASSUME TypeOK, ClientNext
    PROVE  /\ \A r \in Runs : RowStep(r)
           /\ runs' = [r \in Runs |-> runs'[r]]
<1> DEFINE Changed(q) ==
        \/ CreateRun(q) \/ RequestPause(q) \/ RequestCancel(q)
        \/ LeaseExpires(q)
        \/ \E o \in Owners : ClaimRun(q, o) \/ Heartbeat(q, o)
        \/ \E o \in Owners, u \in Updates : SaveProgress(q, o, u)
        \/ \E o \in Owners, s \in FinishStatuses : FinishRun(q, o, s)
        \/ \E D \in SUBSET Owners : ReconcileStaleRuns(D)
<1>2. CASE \E q \in Runs : Changed(q)
  <2>1. PICK q \in Runs : Changed(q)
    BY <1>2
  <2>2. \A r \in Runs : RowStep(r)
    BY <2>1, OperationIsRowStep
  <2>3. QED BY <2>1, <2>2, OperationKeepsDomain
<1>3. CASE Runs = {}
  BY <1>3 DEF TypeOK, ClientNext, ReconcileStaleRuns
<1>4. ASSUME Runs # {} PROVE \E q \in Runs : Changed(q)
  BY <1>4 DEF ClientNext
<1>5. QED BY <1>2, <1>3, <1>4

ClientInv == TypeOK /\ OwnershipCoherent

LEMMA ClientStarts == ClientInit => ClientInv
BY StoreAssumption
DEF ClientInit, ClientInv, TypeOK, OwnershipCoherent, AbsentRow, Row, Statuses, Active,
    IsActive

LEMMA ClientSteps == ClientInv /\ [ClientNext]_runs => ClientInv'
<1> SUFFICES ASSUME ClientInv, ClientNext PROVE ClientInv'
  BY DEF ClientInv, TypeOK, OwnershipCoherent, IsActive
<1>1. \A r \in Runs : runs'[r] \in Row /\ RowOwnership(runs'[r])
  BY StepIsRowStep, RowStepPreserves
  DEF ClientInv, TypeOK, OwnershipCoherent, RowOwnership, IsActive
<1>2. runs' = [r \in Runs |-> runs'[r]]
  BY StepIsRowStep DEF ClientInv
<1>3. QED
  BY <1>1, <1>2
  DEF ClientInv, TypeOK, OwnershipCoherent, RowOwnership, IsActive

\* The rows of the ledger always have the schema's columns and domains.
THEOREM StoreTypeCorrect == ClientSpec => []TypeOK
BY ClientStarts, ClientSteps, PTL DEF ClientSpec, ClientInv

\* Ownership, lease and status of a run always agree, whatever the clients
\* of the store do.
THEOREM StoreOwnershipCoherent == ClientSpec => []OwnershipCoherent
BY ClientStarts, ClientSteps, PTL DEF ClientSpec, ClientInv

\* Rows of ended runs never change again.
THEOREM StoreTerminalIsFinal == ClientSpec => TerminalIsFinal
<1>1. ClientInv /\ [ClientNext]_runs =>
        [\A r \in Runs : runs[r].status \in Terminal => runs'[r] = runs[r]]_runs
  <2> SUFFICES ASSUME ClientInv, ClientNext, NEW r \in Runs, runs[r].status \in Terminal
               PROVE  runs'[r] = runs[r]
    OBVIOUS
  <2>1. RowStep(r) /\ RowOwnership(runs[r])
    BY StepIsRowStep DEF ClientInv, OwnershipCoherent, RowOwnership, IsActive
  <2>2. QED
    BY <2>1, RowStepKeepsEnded
<1>2. QED BY <1>1, ClientStarts, ClientSteps, PTL DEF ClientSpec, TerminalIsFinal

\* Once a cancel is recorded the ledger and its counters are frozen.
THEOREM StoreCancelFreezesLedger == ClientSpec => CancelFreezesLedger
<1> DEFINE Frozen(r) ==
        /\ runs'[r].cancelReq
        /\ runs'[r].plan = runs[r].plan
        /\ runs'[r].criteria = runs[r].criteria
        /\ runs'[r].cycles = runs[r].cycles
        /\ runs'[r].failures = runs[r].failures
        /\ runs'[r].checkpoints = runs[r].checkpoints
        /\ runs'[r].replans = runs[r].replans
<1>1. ClientInv /\ [ClientNext]_runs =>
        [\A r \in Runs : runs[r].cancelReq => Frozen(r)]_runs
  <2> SUFFICES ASSUME ClientInv, ClientNext, NEW r \in Runs, runs[r].cancelReq
               PROVE  Frozen(r)
    OBVIOUS
  <2>1. RowStep(r) /\ runs[r] \in Row
    BY StepIsRowStep DEF ClientInv, TypeOK
  <2>2. QED
    BY <2>1, RowStepFreezes DEF SameLedger
<1>2. QED BY <1>1, ClientStarts, ClientSteps, PTL DEF ClientSpec, CancelFreezesLedger

\* No operation hands a run from one owner directly to another.
THEOREM StoreNoOwnershipTheft == ClientSpec => NoOwnershipTheft
<1>1. ClientInv /\ [ClientNext]_runs =>
        [\A r \in Runs : runs[r].owner # NoOwner =>
            runs'[r].owner \in {runs[r].owner, NoOwner}]_runs
  <2> SUFFICES ASSUME ClientInv, ClientNext, NEW r \in Runs, runs[r].owner # NoOwner
               PROVE  runs'[r].owner \in {runs[r].owner, NoOwner}
    OBVIOUS
  <2>1. RowStep(r) /\ runs[r] \in Row /\ IsActive(r)
    BY StepIsRowStep DEF ClientInv, TypeOK, OwnershipCoherent
  <2>2. QED
    BY <2>1, RowStepKeepsOwner
<1>2. QED BY <1>1, ClientStarts, ClientSteps, PTL DEF ClientSpec, NoOwnershipTheft
-----------------------------------------------------------------------------
\* What the host's edits of a plan return: a plan that still fits max_tasks.
\* Every ledger a controller saves is built by one of them.

Plans == {plan \in Seq(Task) : Len(plan) <= MaxTasks}

\* A sequence of tasks rewritten position by position.
LEMMA RewrittenIsPlan ==
    ASSUME NEW plan \in Plans, NEW new \in [DOMAIN plan -> Task]
    PROVE  new \in Plans
<1> DEFINE n == Len(plan)
<1>1. n \in Nat /\ DOMAIN plan = 1..n /\ n <= MaxTasks
  BY LenProperties DEF Plans
<1>2. new \in UNION {[1..k -> Task] : k \in Nat}
  BY <1>1
<1>3. new \in Seq(Task)
  BY <1>2, SeqDef
<1>4. Len(new) = n
  BY <1>1, <1>3, LenProperties
<1>5. QED BY <1>1, <1>3, <1>4 DEF Plans

LEMMA PlanTasks ==
    ASSUME NEW plan \in Plans
    PROVE  /\ Len(plan) \in Nat /\ DOMAIN plan = 1..Len(plan)
           /\ Len(plan) <= MaxTasks
           /\ \A i \in DOMAIN plan : plan[i] \in Task
           /\ plan \in Seq(Task)
BY LenProperties, ElementOfSeq DEF Plans

LEMMA RepairedIsPlan ==
    ASSUME NEW plan \in Plans PROVE Repaired(plan) \in Plans
<1>1. \A task \in Task : [task EXCEPT !.status = "pending"] \in Task
  BY DEF Task, TaskStatuses
<1>2. Repaired(plan) \in [DOMAIN plan -> Task]
  BY <1>1, PlanTasks DEF Repaired
<1>3. QED BY <1>2, RewrittenIsPlan

LEMMA StartedIsPlan ==
    ASSUME NEW plan \in Plans, NEW i PROVE Started(plan, i) \in Plans
<1>1. \A task \in Task, n \in 0..AttemptCap :
        [task EXCEPT !.status = "running", !.attempts = n] \in Task
  BY DEF Task, TaskStatuses
<1>2. \A task \in Task :
        (IF task.attempts < AttemptCap THEN task.attempts + 1 ELSE task.attempts)
            \in 0..AttemptCap
  BY DEF Task, AttemptCap
<1>3. \A task \in Task :
        [task EXCEPT !.status = "running",
                     !.attempts = IF @ < AttemptCap THEN @ + 1 ELSE @] \in Task
  BY <1>1, <1>2
<1>4. Started(plan, i) \in [DOMAIN plan -> Task]
  BY <1>3, PlanTasks DEF Started
<1>5. QED BY <1>4, RewrittenIsPlan

LEMMA RecordedIsPlan ==
    ASSUME NEW plan \in Plans, NEW i, NEW work \in WorkResults
    PROVE  Recorded(plan, i, work) \in Plans
<1>1. \A task \in Task, status \in {"passed", "failed"}, v \in BOOLEAN :
        [task EXCEPT !.status = status, !.validated = v] \in Task
  BY DEF Task, TaskStatuses
<1> DEFINE status == IF TaskPassed(work, plan[i].kind) THEN "passed" ELSE "failed"
           v == plan[i].kind = "validate" /\ work.validated
<1>2. status \in {"passed", "failed"} /\ v \in BOOLEAN
  OBVIOUS
<1>3. Recorded(plan, i, work) \in [DOMAIN plan -> Task]
  <2>1. Recorded(plan, i, work) = [plan EXCEPT ![i].status = status,
                                               ![i].validated = v]
    BY DEF Recorded
  <2> HIDE DEF status, v
  <2>2. \A j \in DOMAIN plan :
          Recorded(plan, i, work)[j] =
              IF j = i THEN [plan[j] EXCEPT !.status = status, !.validated = v]
                       ELSE plan[j]
    BY <2>1
  <2>3. Recorded(plan, i, work)
          = [j \in DOMAIN plan |-> Recorded(plan, i, work)[j]]
    BY <2>1
  <2>4. ASSUME NEW j \in DOMAIN plan PROVE Recorded(plan, i, work)[j] \in Task
    <3>1. plan[j] \in Task
      BY PlanTasks
    <3>2. [plan[j] EXCEPT !.status = status, !.validated = v] \in Task
      BY <1>1, <1>2, <3>1
    <3>3. QED BY <2>2, <3>1, <3>2
  <2>5. QED BY <2>3, <2>4
<1>4. QED BY <1>3, RewrittenIsPlan

LEMMA RetriedIsPlan ==
    ASSUME NEW plan \in Plans, NEW i
    PROVE  [plan EXCEPT ![i].status = "pending"] \in Plans
<1>1. \A task \in Task : [task EXCEPT !.status = "pending"] \in Task
  BY DEF Task, TaskStatuses
<1>2. [plan EXCEPT ![i].status = "pending"] \in [DOMAIN plan -> Task]
  BY <1>1, PlanTasks
<1>3. QED BY <1>2, RewrittenIsPlan

LEMMA SupersededIsPlan ==
    ASSUME NEW plan \in Plans, NEW dropped
    PROVE  Superseded(plan, dropped) \in Plans
           /\ Len(Superseded(plan, dropped)) = Len(plan)
<1>1. \A task \in Task : [task EXCEPT !.status = "superseded"] \in Task
  BY DEF Task, TaskStatuses
<1>2. Superseded(plan, dropped) \in [DOMAIN plan -> Task]
  BY <1>1, PlanTasks DEF Superseded
<1>3. Superseded(plan, dropped) \in Plans
  BY <1>2, RewrittenIsPlan
<1>4. DOMAIN Superseded(plan, dropped) = DOMAIN plan
  BY DEF Superseded
<1>5. QED BY <1>3, <1>4, PlanTasks

\* Lists of kinds: a prefix is no longer than asked.
LEMMA UptoLength ==
    ASSUME NEW kinds \in Seq(Kinds), NEW n \in Nat
    PROVE  Upto(kinds, n) \in Seq(Kinds) /\ Len(Upto(kinds, n)) <= n
<1> DEFINE m == IF Len(kinds) < n THEN Len(kinds) ELSE n
<1>1. m \in Nat /\ m <= n /\ m <= Len(kinds) /\ Len(kinds) \in Nat
  BY LenProperties
<1>2. \A i \in 1..m : kinds[i] \in Kinds
  BY <1>1, ElementOfSeq
<1> HIDE DEF m
<1>3. /\ SubSeq(kinds, 1, m) \in Seq(Kinds)
      /\ Len(SubSeq(kinds, 1, m)) = IF 1 <= m THEN m - 1 + 1 ELSE 0
  BY <1>1, <1>2, SubSeqProperties
<1>4. QED BY <1>1, <1>3 DEF Upto, m

LEMMA NewTasksLength ==
    ASSUME NEW kinds \in Seq(Kinds)
    PROVE  NewTasks(kinds) \in Seq(Task) /\ Len(NewTasks(kinds)) = Len(kinds)
<1>1. \A kind \in Kinds : NewTask(kind) \in Task
  BY DEF NewTask, Task, TaskStatuses, AttemptCap
<1>2. Len(kinds) \in Nat /\ DOMAIN kinds = 1..Len(kinds)
  BY LenProperties
<1>3. NewTasks(kinds) \in [1..Len(kinds) -> Task]
  BY <1>1, <1>2, ElementOfSeq DEF NewTasks
<1>4. NewTasks(kinds) \in Seq(Task)
  BY <1>2, <1>3, SeqDef
<1>5. QED BY <1>2, <1>3, <1>4, LenProperties

\* normalize_plan never returns more than max_tasks tasks.
LEMMA NormalizedIsPlan ==
    ASSUME NEW kinds \in Seq(Kinds), ControllerAssumption
    PROVE  NormalizePlan(kinds) \in Plans
<1> DEFINE cut == Upto(kinds, MaxTasks)
           padded == Append(Upto(cut, MaxTasks - 1), "validate")
<1>1. MaxTasks \in Nat /\ MaxTasks - 1 \in Nat
  BY StoreAssumption DEF ControllerAssumption
<1>2. cut \in Seq(Kinds) /\ Len(cut) <= MaxTasks
  BY <1>1, UptoLength
<1> HIDE DEF cut
<1>3. padded \in Seq(Kinds) /\ Len(padded) <= MaxTasks
  <2>1. /\ Upto(cut, MaxTasks - 1) \in Seq(Kinds)
        /\ Len(Upto(cut, MaxTasks - 1)) <= MaxTasks - 1
    BY <1>1, <1>2, UptoLength
  <2>2. "validate" \in Kinds
    BY DEF Kinds
  <2>3. Len(Upto(cut, MaxTasks - 1)) \in Nat
    BY <2>1, LenProperties
  <2>4. QED BY <1>1, <2>1, <2>2, <2>3, AppendProperties
<1> HIDE DEF padded
<1>4. NormalizePlan(kinds) = NewTasks(IF Validates(cut) THEN cut ELSE padded)
  BY DEF NormalizePlan, cut, padded
<1>5. QED BY <1>2, <1>3, <1>4, NewTasksLength DEF Plans

\* A replan appends at most what there is room for.
LEMMA AddedLength ==
    ASSUME NEW plan \in Plans, NEW dropped, NEW kinds \in Seq(Kinds)
    PROVE  /\ Added(plan, dropped, kinds) \in Seq(Kinds)
           /\ Len(Added(plan, dropped, kinds)) <= Room(plan)
<1> DEFINE fresh == Upto(kinds, Room(plan))
<1>1. Room(plan) \in Nat
  BY PlanTasks, StoreAssumption DEF Room
<1>2. fresh \in Seq(Kinds) /\ Len(fresh) <= Room(plan)
  BY <1>1, UptoLength
<1>3. Len(fresh) \in Nat /\ "validate" \in Kinds
  BY <1>2, LenProperties DEF Kinds
<1> HIDE DEF fresh
<1>4. /\ [fresh EXCEPT ![Len(fresh)] = "validate"] \in Seq(Kinds)
      /\ Len([fresh EXCEPT ![Len(fresh)] = "validate"]) <= Room(plan)
  <2> DEFINE last == [fresh EXCEPT ![Len(fresh)] = "validate"]
  <2>1. last \in [1..Len(fresh) -> Kinds]
    BY <1>2, <1>3, LenProperties, ElementOfSeq
  <2> HIDE DEF last
  <2>2. last \in Seq(Kinds)
    <3>1. last \in UNION {[1..k -> Kinds] : k \in Nat}
      BY <1>3, <2>1
    <3>2. QED BY <3>1, SeqDef
  <2>3. Len(last) = Len(fresh)
    BY <1>3, <2>1, <2>2, LenProperties
  <2>4. QED BY <1>2, <2>2, <2>3 DEF last
<1>5. CASE Len(fresh) >= Room(plan)
  BY <1>2, <1>4, <1>5 DEF Added, fresh
<1>6. CASE Len(fresh) < Room(plan)
  <2>1. /\ Append(fresh, "validate") \in Seq(Kinds)
        /\ Len(Append(fresh, "validate")) = Len(fresh) + 1
    BY <1>2, <1>3, AppendProperties
  <2>2. Len(Append(fresh, "validate")) <= Room(plan)
    BY <1>1, <1>3, <1>6, <2>1
  <2>3. QED BY <1>2, <1>4, <2>1, <2>2 DEF Added, fresh
<1>7. QED BY <1>1, <1>3, <1>5, <1>6

LEMMA ReplannedIsPlan ==
    ASSUME NEW plan \in Plans, NEW dropped, NEW kinds \in Seq(Kinds)
    PROVE  AppendReplan(plan, dropped, kinds) \in Plans
<1> DEFINE old == Superseded(plan, dropped)
           new == NewTasks(Added(plan, dropped, kinds))
<1>1. old \in Seq(Task) /\ Len(old) = Len(plan) /\ Len(plan) \in Nat
  BY SupersededIsPlan, PlanTasks DEF Plans
<1>2. new \in Seq(Task) /\ Len(new) <= Room(plan)
  BY AddedLength, NewTasksLength
<1>3. Len(new) \in Nat
  BY <1>2, LenProperties
<1> HIDE DEF old, new
<1>4. old \o new \in Seq(Task) /\ Len(old \o new) = Len(old) + Len(new)
  BY <1>1, <1>2, ConcatProperties
<1>5. Len(old \o new) <= MaxTasks
  BY <1>1, <1>2, <1>3, <1>4, StoreAssumption DEF Room
<1>6. QED BY <1>4, <1>5 DEF AppendReplan, old, new, Plans


-----------------------------------------------------------------------------
\* The inductive invariant.

RowsInv ==
    /\ TypeOK
    /\ OwnershipCoherent
    /\ \A r \in Runs : runs[r].plan \in Plans
    /\ CompletionIsGrounded

Snaps == [plan : Plans, criteria : BOOLEAN, failures : Nat,
          checkpoints : Nat, replans : Nat]

Locals ==
    [pc : PCs, run : Runs \cup {NoRun}, planOnly : BOOLEAN, plan : Plans,
     task : 0..MaxTasks, snap : Snaps, invoked : 0..MaxCycles,
     fin : FinishStatuses]

Gone == {"idle", "crashed"}

\* Where the invocation has a cycle of its budget left.
InCycle == {"loop", "reconcile", "read", "startTask", "work", "record"}

LocalInv(o) ==
    /\ ctl[o].pc \in Gone <=> ctl[o].run = NoRun
    /\ ctl[o].pc \in InCycle => ctl[o].invoked < MaxCycles
    /\ ctl[o].fin # "completed"
    /\ ctl[o].pc \in {"launched", "claim"} => \A r \in Runs : ~ OwnedBy(r, o)
    /\ \A r \in Runs : ctl[o].run = r /\ OwnedBy(r, o) =>
            ctl[o].snap = Snapshot(runs[r])

IInv ==
    /\ RowsInv
    /\ ctl \in [Owners -> Locals]
    /\ \A o \in Owners : LocalInv(o)

-----------------------------------------------------------------------------
\* What a step does to the rows, and to the rows a controller owns.

Sound ==
    /\ \A r \in Runs : RowStep(r)
    /\ runs' = [r \in Runs |-> runs'[r]]
    /\ \A r \in Runs : runs'[r].plan \in Plans
    /\ \A r \in Runs : runs'[r].status = "completed" =>
            runs'[r] = runs[r] \/ CompletionGate(runs'[r])

Unaffected(o) ==
    \A r \in Runs : OwnedBy(r, o)' =>
        OwnedBy(r, o) /\ Snapshot(runs'[r]) = Snapshot(runs[r])

\* The obligation of a step of controller o.
Preserved(o) ==
    /\ Sound
    /\ \A p \in Owners \ {o} : Unaffected(p)
    /\ \E c \in Locals : ctl' = [ctl EXCEPT ![o] = c]
    /\ LocalInv(o)'

LEMMA SoundKeepsRows ==
    ASSUME RowsInv, Sound PROVE RowsInv'
<1>1. \A r \in Runs : runs'[r] \in Row /\ RowOwnership(runs'[r])
  BY RowStepPreserves
  DEF RowsInv, Sound, TypeOK, OwnershipCoherent, RowOwnership, IsActive
<1>2. TypeOK'
  BY <1>1 DEF Sound, TypeOK
<1>3. OwnershipCoherent'
  BY <1>1 DEF OwnershipCoherent, RowOwnership, IsActive
<1>4. CompletionIsGrounded'
  BY DEF Sound, RowsInv, CompletionIsGrounded, CompletionGate
<1>5. QED BY <1>2, <1>3, <1>4 DEF RowsInv, Sound

\* Another controller's step leaves what controller p knows true.
LEMMA OthersKeep ==
    ASSUME NEW p \in Owners, LocalInv(p), ctl'[p] = ctl[p], Unaffected(p)
    PROVE  LocalInv(p)'
BY DEF LocalInv, Unaffected

LEMMA PreservedKeepsIInv ==
    ASSUME IInv, NEW o \in Owners, Preserved(o) PROVE IInv'
<1>1. RowsInv'
  BY SoundKeepsRows DEF IInv, Preserved
<1>2. ctl' \in [Owners -> Locals]
  BY DEF IInv, Preserved
<1>3. \A p \in Owners \ {o} : ctl'[p] = ctl[p]
  BY DEF IInv, Preserved
<1>4. \A p \in Owners \ {o} : LocalInv(p)'
  BY <1>3, OthersKeep DEF IInv, Preserved
<1>5. QED BY <1>1, <1>2, <1>4 DEF IInv, Preserved

\* A step of the world, which moves no controller.
LEMMA WorldKeepsIInv ==
    ASSUME IInv, Sound, \A p \in Owners : Unaffected(p), UNCHANGED ctl
    PROVE  IInv'
<1>1. RowsInv'
  BY SoundKeepsRows DEF IInv
<1>2. \A p \in Owners : LocalInv(p)'
  BY OthersKeep DEF IInv
<1>3. QED BY <1>1, <1>2 DEF IInv

-----------------------------------------------------------------------------
\* The store's operations.

SameOwner(r) == \A o \in Owners : OwnedBy(r, o)' => OwnedBy(r, o)

LEMMA SnapshotOfLedger ==
    ASSUME NEW new, NEW old, SameLedger(new, old)
    PROVE  Snapshot(new) = Snapshot(old) /\ (CompletionGate(new) <=> CompletionGate(old))
BY DEF SameLedger, Snapshot, CompletionGate

\* A row operation that is neither a save nor a claim.
QuietRow(r) ==
    \/ runs'[r] = runs[r]
    \/ runs[r].status = "absent" /\ runs'[r] = [runs[r] EXCEPT !.status = "ready"]
    \/ runs'[r] = [runs[r] EXCEPT !.lease = "live"]
    \/ runs'[r] = [runs[r] EXCEPT !.pauseReq = TRUE]
    \/ runs'[r] = [runs[r] EXCEPT !.cancelReq = TRUE]
    \/ runs'[r] = [Disowned(runs[r]) EXCEPT !.status = "paused", !.pauseReq = FALSE]
    \/ runs'[r] = [Disowned(runs[r]) EXCEPT !.status = "cancelled",
                                            !.cancelReq = TRUE]
    \/ runs'[r] = Interrupted(runs[r])
    \/ runs'[r] = [runs[r] EXCEPT !.lease = "expired"]
    \/ \E s \in FinishStatuses : runs'[r] = Finished(runs[r], s)

LEMMA QuietRowEffect ==
    ASSUME NEW r \in Runs, runs[r] \in Row, QuietRow(r)
    PROVE  SameLedger(runs'[r], runs[r]) /\ SameOwner(r)
<1> USE DEF SameOwner, OwnedBy, IsActive, Active
<1>1. CASE runs'[r] = runs[r]
  BY <1>1 DEF SameLedger
<1>2. CASE runs[r].status = "absent" /\ runs'[r] = [runs[r] EXCEPT !.status = "ready"]
  BY <1>2 DEF SameLedger, Row
<1>3. CASE \/ runs'[r] = [runs[r] EXCEPT !.lease = "live"]
           \/ runs'[r] = [runs[r] EXCEPT !.pauseReq = TRUE]
           \/ runs'[r] = [runs[r] EXCEPT !.cancelReq = TRUE]
           \/ runs'[r] = [runs[r] EXCEPT !.lease = "expired"]
  BY <1>3 DEF SameLedger, Row
<1>4. CASE \/ runs'[r] = [Disowned(runs[r]) EXCEPT !.status = "paused",
                                                   !.pauseReq = FALSE]
           \/ runs'[r] = [Disowned(runs[r]) EXCEPT !.status = "cancelled",
                                                   !.cancelReq = TRUE]
  BY ZenonT(60), <1>4 DEF SameLedger, Row, Disowned
<1>5. CASE runs'[r] = Interrupted(runs[r])
  BY <1>5, InterruptedIsRow
<1>6. CASE \E s \in FinishStatuses : runs'[r] = Finished(runs[r], s)
  <2>1. PICK s \in FinishStatuses : runs'[r] = Finished(runs[r], s)
    BY <1>6
  <2>2. s \notin Active
    BY DEF FinishStatuses, Terminal
  <2>3. QED BY <2>1, <2>2, FinishedIsRow
<1>7. QED BY <1>1, <1>2, <1>3, <1>4, <1>5, <1>6 DEF QuietRow

LEMMA QuietIsSound ==
    ASSUME RowsInv, \A r \in Runs : RowStep(r) /\ QuietRow(r),
           runs' = [r \in Runs |-> runs'[r]],
           \A r \in Runs : runs'[r].status = "completed" =>
                runs'[r] = runs[r] \/ CompletionGate(runs[r])
    PROVE  Sound /\ \A o \in Owners : Unaffected(o)
<1>1. \A r \in Runs : SameLedger(runs'[r], runs[r]) /\ SameOwner(r)
  BY QuietRowEffect DEF RowsInv, TypeOK
<1>2. \A r \in Runs : runs'[r].plan = runs[r].plan
  BY <1>1 DEF SameLedger
<1>3. \A r \in Runs : /\ Snapshot(runs'[r]) = Snapshot(runs[r])
                      /\ CompletionGate(runs'[r]) <=> CompletionGate(runs[r])
  BY <1>1, SnapshotOfLedger
<1>4. Sound
  BY <1>2, <1>3 DEF Sound, RowsInv
<1>5. QED BY <1>1, <1>3, <1>4 DEF Unaffected, SameOwner

LEMMA UnchangedIsSound ==
    ASSUME RowsInv, UNCHANGED runs
    PROVE  Sound /\ \A o \in Owners : Unaffected(o)
BY QuietIsSound DEF RowsInv, TypeOK, RowStep, QuietRow

LEMMA ReconcileIsSound ==
    ASSUME RowsInv, NEW D \in SUBSET Owners, ReconcileStaleRuns(D)
    PROVE  Sound /\ \A o \in Owners : Unaffected(o)
<1>1. \A r \in Runs :
        runs'[r] = IF r \in Stale(D) THEN Interrupted(runs[r]) ELSE runs[r]
  BY DEF ReconcileStaleRuns
<1>2. \A r \in Stale(D) : IsActive(r)
  BY DEF Stale
<1>3. \A r \in Runs : RowStep(r) /\ QuietRow(r)
  BY <1>1, <1>2 DEF RowStep, QuietRow
<1>4. \A r \in Runs : runs'[r].status = "completed" => runs'[r] = runs[r]
  BY <1>1, InterruptedIsRow DEF RowsInv, TypeOK
<1>5. runs' = [r \in Runs |-> runs'[r]]
  BY DEF ReconcileStaleRuns
<1>6. QED BY <1>3, <1>4, <1>5, QuietIsSound

\* The world's operations on one row.
LEMMA TouchIsSound ==
    ASSUME RowsInv, NEW q \in Runs,
           \/ CreateRun(q) \/ RequestPause(q) \/ RequestCancel(q)
           \/ LeaseExpires(q) \/ \E o \in Owners : Heartbeat(q, o)
    PROVE  Sound /\ \A o \in Owners : Unaffected(o)
<1>1. TypeOK
  BY DEF RowsInv
<1>2. \A r \in Runs : RowStep(r)
  BY <1>1, OperationIsRowStep
<1>3. runs' = [r \in Runs |-> runs'[r]]
  BY <1>1, OperationKeepsDomain
<1>4. \A r \in Runs \ {q} : runs'[r] = runs[r]
  BY <1>1 DEF TypeOK, CreateRun, RequestPause, RequestCancel, LeaseExpires, Heartbeat
<1>5. QuietRow(q)
  BY <1>1 DEF TypeOK, CreateRun, RequestPause, RequestCancel, LeaseExpires,
              Heartbeat, QuietRow
<1>6. runs'[q].status = "completed" => runs[q].status = "completed"
  <2> USE <1>1 DEF TypeOK, Row
  <2>1. CASE CreateRun(q)
    BY <2>1 DEF CreateRun
  <2>2. CASE RequestPause(q)
    BY <2>2 DEF RequestPause, Disowned
  <2>3. CASE RequestCancel(q)
    BY <2>3 DEF RequestCancel, Disowned
  <2>4. CASE LeaseExpires(q)
    BY <2>4 DEF LeaseExpires
  <2>5. CASE \E o \in Owners : Heartbeat(q, o)
    BY <2>5 DEF Heartbeat
  <2>6. QED BY <2>1, <2>2, <2>3, <2>4, <2>5
<1>7. \A r \in Runs : QuietRow(r)
  BY <1>4, <1>5 DEF QuietRow
<1>8. \A r \in Runs : runs'[r].status = "completed" =>
            runs'[r] = runs[r] \/ CompletionGate(runs[r])
  BY <1>4, <1>6 DEF RowsInv, CompletionIsGrounded
<1>9. QED BY <1>2, <1>3, <1>7, <1>8, QuietIsSound

\* finish_run, told "completed" only for a ledger that passes the gate.
LEMMA FinishIsSound ==
    ASSUME RowsInv, NEW q \in Runs, NEW o \in Owners, NEW s \in FinishStatuses,
           FinishRun(q, o, s),
           s = "completed" => CompletionGate(runs[q])
    PROVE  Sound /\ \A p \in Owners : Unaffected(p)
<1>1. TypeOK
  BY DEF RowsInv
<1>2. \A r \in Runs : RowStep(r)
  BY <1>1, OperationIsRowStep
<1>3. runs' = [r \in Runs |-> runs'[r]]
  BY <1>1, OperationKeepsDomain
<1>4. \A r \in Runs \ {q} : runs'[r] = runs[r]
  BY <1>1 DEF TypeOK, FinishRun
<1>5. runs'[q] = Finished(runs[q], s)
  BY <1>1 DEF TypeOK, FinishRun
<1>6. runs'[q].status = s
  BY <1>1, <1>5, FinishedIsRow DEF TypeOK
<1>7. \A r \in Runs : QuietRow(r)
  BY <1>4, <1>5 DEF QuietRow
<1>8. \A r \in Runs : runs'[r].status = "completed" =>
            runs'[r] = runs[r] \/ CompletionGate(runs[r])
  BY <1>4, <1>6
<1>9. QED BY <1>2, <1>3, <1>7, <1>8, QuietIsSound

\* Updates a controller saves: the plan, if any, fits.
PlanUpdates == {u \in Updates : u.plan # Keep => u.plan \in Plans}

LEMMA SaveIsSound ==
    ASSUME RowsInv, NEW o \in Owners, NEW q \in Runs, ctl[o].run = q,
           NEW u \in PlanUpdates, Save(o, u)
    PROVE  Sound /\ \A p \in Owners \ {o} : Unaffected(p)
<1>1. CASE UNCHANGED runs
  BY <1>1, UnchangedIsSound
<1>2. CASE SaveProgress(q, o, u)
  <2>1. TypeOK /\ u \in Updates
    BY DEF RowsInv, PlanUpdates
  <2>2. \A r \in Runs : RowStep(r)
    BY <1>2, <2>1, OperationIsRowStep
  <2>3. runs' = [r \in Runs |-> runs'[r]]
    BY <1>2, <2>1, OperationKeepsDomain
  <2>4. \A r \in Runs \ {q} : runs'[r] = runs[r]
    BY <1>2, <2>1 DEF TypeOK, SaveProgress
  <2>5. runs'[q] = Saved(runs[q], u) /\ OwnedBy(q, o) /\ runs[q] \in Row
    BY <1>2, <2>1 DEF TypeOK, SaveProgress, CanSave
  <2>6. runs'[q].plan = Given(u.plan, runs[q].plan)
    BY <2>5 DEF Saved, Row
  <2>7. runs'[q].plan \in Plans
    BY <2>6 DEF Given, RowsInv, PlanUpdates
  <2>8. /\ runs'[q].owner = o
        /\ runs'[q].status # "completed"
    BY <2>1, <2>5, SavedIsRow DEF OwnedBy, IsActive, Active
  <2>9. Sound
    BY <2>2, <2>3, <2>4, <2>7, <2>8 DEF Sound, RowsInv
  <2>10. \A p \in Owners \ {o} : Unaffected(p)
    BY <2>4, <2>8 DEF Unaffected, OwnedBy, IsActive
  <2>11. QED BY <2>9, <2>10
<1>3. QED BY <1>1, <1>2 DEF Save

LEMMA RowGivesSnap ==
    ASSUME NEW row \in Row, row.plan \in Plans PROVE Snapshot(row) \in Snaps
BY DEF Row, Snapshot, Snaps

\* What the controller holds after a save is what a controller may hold, and
\* is the row if the controller still owns it.
LEMMA SnapAfterSaveIsFresh ==
    ASSUME IInv, NEW o \in Owners, NEW q \in Runs, ctl[o].run = q,
           NEW u \in PlanUpdates, Save(o, u)
    PROVE  /\ SnapAfterSave(o) \in Snaps
           /\ OwnedBy(q, o)' => SnapAfterSave(o) = Snapshot(runs'[q])
<1>1. RowsInv /\ ctl[o].snap \in Snaps /\ LocalInv(o)
  BY DEF IInv, Locals
<1>2. RowsInv'
  BY <1>1, SaveIsSound, SoundKeepsRows
<1>3. Snapshot(runs'[q]) \in Snaps
  BY <1>2, RowGivesSnap DEF RowsInv, TypeOK
<1>4. CASE CanSave(q, o)
  BY <1>3, <1>4 DEF SnapAfterSave
<1>5. CASE ~ CanSave(q, o)
  <2>1. UNCHANGED runs
    BY <1>5 DEF Save, SaveProgress
  <2>2. SnapAfterSave(o) = ctl[o].snap
    BY <1>5 DEF SnapAfterSave
  <2>3. OwnedBy(q, o)' => OwnedBy(q, o)
    BY <2>1 DEF OwnedBy, IsActive
  <2>4. QED BY <1>1, <2>1, <2>2, <2>3 DEF LocalInv
<1>6. QED BY <1>4, <1>5

-----------------------------------------------------------------------------
\* How a controller's locals move.

LEMMA Constants ==
    /\ MaxTasks \in Nat /\ MaxTasks # 0 /\ MaxCycles \in Nat /\ MaxCycles # 0
    /\ 0 \in 0..MaxTasks /\ 0 \in 0..MaxCycles
    /\ <<>> \in Plans
    /\ NoRun \notin Runs
<1>1. <<>> \in Seq(Task) /\ Len(<<>>) = 0
  BY EmptySeq
<1>2. MaxTasks \in Nat /\ MaxTasks # 0
  BY StoreAssumption, ControllerAssumption DEF ControllerAssumption
<1>3. QED BY <1>1, <1>2, ControllerAssumption DEF Plans, ControllerAssumption

\* Controller o goes on with the locals c: its run stays, and its snapshot
\* stays or is the row.
LEMMA ContinueIsPreserved ==
    ASSUME IInv, NEW o \in Owners, NEW c \in Locals, NEW q \in Runs,
           ctl[o].run = q, c.run = q,
           ctl' = [ctl EXCEPT ![o] = c],
           Sound, \A p \in Owners \ {o} : Unaffected(p),
           c.pc \notin Gone \cup {"launched", "claim"},
           c.pc \in InCycle => c.invoked < MaxCycles,
           c.fin # "completed",
           OwnedBy(q, o)' => c.snap = Snapshot(runs'[q])
    PROVE  Preserved(o)
<1>1. ctl'[o] = c
  BY DEF IInv
<1>2. LocalInv(o)'
  BY <1>1, Constants DEF LocalInv
<1>3. QED BY <1>2 DEF Preserved

\* The same when the rows o owns did not change and its snapshot stays.
LEMMA MoveIsPreserved ==
    ASSUME IInv, NEW o \in Owners, NEW c \in Locals, NEW q \in Runs,
           ctl[o].run = q, c.run = q, c.snap = ctl[o].snap,
           ctl' = [ctl EXCEPT ![o] = c],
           Sound, \A p \in Owners : Unaffected(p),
           c.pc \notin Gone \cup {"launched", "claim"},
           c.pc \in InCycle => c.invoked < MaxCycles,
           c.fin # "completed"
    PROVE  Preserved(o)
<1>1. OwnedBy(q, o)' => c.snap = Snapshot(runs'[q])
  BY DEF IInv, LocalInv, Unaffected
<1>2. QED BY <1>1, ContinueIsPreserved

LEMMA IdleIsLocals ==
    /\ IdleCtl \in Locals
    /\ IdleCtl.pc = "idle" /\ IdleCtl.run = NoRun /\ IdleCtl.fin = "paused"
<1>1. AbsentRow \in Row /\ AbsentRow.plan \in Plans
  BY Constants DEF AbsentRow, Row, Statuses, Plans
<1>2. Snapshot(AbsentRow) \in Snaps
  BY <1>1, RowGivesSnap
<1> DEFINE snap == Snapshot(AbsentRow)
<1>3. IdleCtl =
        [pc |-> "idle", run |-> NoRun, planOnly |-> FALSE, plan |-> <<>>,
         task |-> 0, snap |-> snap, invoked |-> 0, fin |-> "paused"]
  BY DEF IdleCtl
<1> HIDE DEF snap
<1>4. "paused" \in FinishStatuses /\ "idle" \in PCs /\ snap \in Snaps
  BY <1>2 DEF FinishStatuses, PCs, snap
<1>5. QED BY <1>3, <1>4, Constants DEF Locals

\* Controller o returns or dies.
LEMMA LeaveIsPreserved ==
    ASSUME IInv, NEW o \in Owners, NEW c \in Locals,
           c.pc \in Gone, c.run = NoRun, c.fin # "completed",
           ctl' = [ctl EXCEPT ![o] = c],
           Sound, \A p \in Owners \ {o} : Unaffected(p)
    PROVE  Preserved(o)
<1>1. ctl'[o] = c
  BY DEF IInv
<1>2. LocalInv(o)'
  BY <1>1, Constants DEF LocalInv, Gone, InCycle
<1>3. QED BY <1>2 DEF Preserved

LEMMA ReturnIsPreserved ==
    ASSUME IInv, NEW o \in Owners, Return(o),
           Sound, \A p \in Owners \ {o} : Unaffected(p)
    PROVE  Preserved(o)
BY LeaveIsPreserved, IdleIsLocals DEF Return, Gone

\* Setting the program counter, and the status to finish with.
LEMMA PcIsLocals ==
    ASSUME NEW c \in Locals, NEW pc \in PCs, NEW s \in FinishStatuses
    PROVE  /\ [c EXCEPT !.pc = pc] \in Locals
           /\ [c EXCEPT !.pc = pc, !.fin = s] \in Locals
BY DEF Locals

LEMMA GotoIsPreserved ==
    ASSUME IInv, NEW o \in Owners, NEW q \in Runs, ctl[o].run = q,
           NEW pc \in PCs, Goto(o, pc),
           Sound, \A p \in Owners : Unaffected(p),
           pc \notin Gone \cup {"launched", "claim"},
           pc \in InCycle => ctl[o].invoked < MaxCycles
    PROVE  Preserved(o)
<1> DEFINE c == [ctl[o] EXCEPT !.pc = pc]
<1>1. ctl[o] \in Locals /\ ctl[o].fin # "completed"
  BY DEF IInv, LocalInv
<1>2. c \in Locals
  BY <1>1 DEF Locals
<1>3. /\ c.pc = pc /\ c.run = q /\ c.snap = ctl[o].snap
      /\ c.fin = ctl[o].fin /\ c.invoked = ctl[o].invoked
  BY <1>1 DEF Locals
<1>4. ctl' = [ctl EXCEPT ![o] = c]
  BY DEF Goto
<1> HIDE DEF c
<1>5. QED BY <1>1, <1>2, <1>3, <1>4, MoveIsPreserved

LEMMA GotoFinishIsPreserved ==
    ASSUME IInv, NEW o \in Owners, NEW q \in Runs, ctl[o].run = q,
           NEW pc \in {"finish", "checkpointStop"},
           NEW s \in FinishStatuses \ {"completed"},
           ctl' = [ctl EXCEPT ![o].pc = pc, ![o].fin = s],
           Sound, \A p \in Owners : Unaffected(p)
    PROVE  Preserved(o)
<1> DEFINE c == [ctl[o] EXCEPT !.pc = pc, !.fin = s]
<1>1. ctl[o] \in Locals /\ pc \in PCs /\ pc \notin Gone \cup InCycle
  BY DEF IInv, PCs, InTry, Gone, InCycle
<1>2. c \in Locals
  BY <1>1 DEF Locals
<1>3. c.pc = pc /\ c.run = q /\ c.snap = ctl[o].snap /\ c.fin = s
  BY <1>1 DEF Locals
<1>4. ctl' = [ctl EXCEPT ![o] = c]
  BY DEF IInv
<1> HIDE DEF c
<1>5. QED BY <1>1, <1>2, <1>3, <1>4, MoveIsPreserved

-----------------------------------------------------------------------------
\* The steps of execute_run.

LEMMA EngagedFacts ==
    ASSUME IInv, NEW o \in Owners, ctl[o].pc \notin Gone
    PROVE  /\ ctl[o].run \in Runs /\ ctl[o] \in Locals
           /\ LocalInv(o) /\ RowsInv /\ runs[ctl[o].run] \in Row
BY DEF IInv, LocalInv, Locals, RowsInv, TypeOK

LEMMA FinishStepIsPreserved ==
    ASSUME IInv, NEW o \in Owners, ctl[o].pc \notin Gone,
           NEW s \in FinishStatuses, Finish(o, s),
           s = "completed" => CompletionGate(ctl[o].snap)
    PROVE  Preserved(o)
<1> DEFINE r == ctl[o].run
<1>1. r \in Runs /\ LocalInv(o) /\ RowsInv
  BY EngagedFacts
<1>2. CASE FinishRun(r, o, s)
  <2>1. ctl[o].snap = Snapshot(runs[r])
    BY <1>1, <1>2 DEF LocalInv, FinishRun
  <2>2. s = "completed" => CompletionGate(runs[r])
    <3>1. ctl[o].snap.plan = runs[r].plan /\ ctl[o].snap.criteria = runs[r].criteria
      BY <2>1 DEF Snapshot
    <3>2. QED BY <3>1 DEF CompletionGate
  <2>3. Sound /\ \A p \in Owners : Unaffected(p)
    BY <1>1, <1>2, <2>2, FinishIsSound
  <2>4. QED BY <2>3, ReturnIsPreserved DEF Finish
<1>3. CASE UNCHANGED runs
  BY <1>1, <1>3, UnchangedIsSound, ReturnIsPreserved DEF Finish
<1>4. QED BY <1>2, <1>3 DEF Finish

LEMMA IterationIsLocals ==
    ASSUME NEW c \in Locals
    PROVE  /\ NextIteration(c) \in Locals
           /\ NextIteration(c).run = c.run /\ NextIteration(c).snap = c.snap
           /\ NextIteration(c).fin = c.fin /\ NextIteration(c).invoked = c.invoked
           /\ NextIteration(c).pc \in {"loop", "finalReconcile"}
           /\ NextIteration(c).pc = "loop" => c.invoked < MaxCycles
<1> DEFINE pc == IF c.invoked < MaxCycles THEN "loop" ELSE "finalReconcile"
<1>1. pc \in {"loop", "finalReconcile"} /\ pc \in PCs
      /\ (pc = "loop" => c.invoked < MaxCycles)
  BY DEF PCs, InTry
<1>2. NextIteration(c) = [c EXCEPT !.pc = pc, !.plan = <<>>, !.task = 0]
  BY DEF NextIteration
<1> HIDE DEF pc
<1>3. QED BY <1>1, <1>2, Constants DEF Locals

LEMMA ResumedIsLocals ==
    ASSUME NEW c \in Locals, c.fin # "completed"
    PROVE  /\ Resumed(c) \in Locals
           /\ Resumed(c).run = c.run /\ Resumed(c).snap = c.snap
           /\ Resumed(c).fin # "completed" /\ Resumed(c).invoked = c.invoked
           /\ Resumed(c).pc \in {"planning", "finish", "loop", "finalReconcile"}
           /\ Resumed(c).pc = "loop" => c.invoked < MaxCycles
<1>1. CASE c.plan = <<>>
  <2>1. "planning" \in PCs
    BY DEF PCs, InTry
  <2>2. Resumed(c) = [c EXCEPT !.pc = "planning"]
    BY <1>1 DEF Resumed
  <2>3. QED BY <2>1, <2>2 DEF Locals
<1>2. CASE c.plan # <<>> /\ c.planOnly
  <2>1. "finish" \in PCs /\ "paused" \in FinishStatuses
    BY DEF PCs, InTry, FinishStatuses
  <2>2. Resumed(c) = [c EXCEPT !.pc = "finish", !.fin = "paused"]
    BY <1>2 DEF Resumed
  <2>3. QED BY <2>1, <2>2 DEF Locals
<1>3. CASE c.plan # <<>> /\ ~ c.planOnly
  <2>1. Resumed(c) = NextIteration(c)
    BY <1>3 DEF Resumed
  <2>2. QED BY <2>1, IterationIsLocals
<1>4. QED BY <1>1, <1>2, <1>3

LEMMA SnapIsLocals ==
    ASSUME NEW c \in Locals, NEW snap \in Snaps, NEW plan \in Plans
    PROVE  /\ [c EXCEPT !.snap = snap] \in Locals
           /\ [c EXCEPT !.plan = plan, !.snap = snap] \in Locals
BY DEF Locals

LEMMA PlanIsColumn == \A plan \in Plans : plan \in Seq(Task)
BY DEF Plans

\* What the arguments of the saves are made of.
LEMMA NullIsUpdate ==
    NullUpdate \in Updates /\ NullUpdate.plan = Keep
BY DEF NullUpdate, Updates

\* A save after which the locals become c.
LEMMA SaveStepIsPreserved ==
    ASSUME IInv, NEW o \in Owners, ctl[o].pc \notin Gone,
           NEW u \in PlanUpdates, Save(o, u),
           NEW c \in Locals, ctl' = [ctl EXCEPT ![o] = c],
           c.run = ctl[o].run, c.snap = SnapAfterSave(o),
           c.pc \notin Gone \cup {"launched", "claim"},
           c.pc \in InCycle => c.invoked < MaxCycles,
           c.fin # "completed"
    PROVE  Preserved(o)
<1>1. PICK q \in Runs : q = ctl[o].run
  BY EngagedFacts
<1>2. RowsInv
  BY EngagedFacts
<1>3. Sound /\ \A p \in Owners \ {o} : Unaffected(p)
  BY <1>1, <1>2, SaveIsSound
<1>4. OwnedBy(q, o)' => c.snap = Snapshot(runs'[q])
  BY <1>1, SnapAfterSaveIsFresh
<1>5. QED BY <1>1, <1>3, <1>4, ContinueIsPreserved

\* Such a save leaves the controller with a proper snapshot.
LEMMA SnapAfterSaveIsSnap ==
    ASSUME IInv, NEW o \in Owners, ctl[o].pc \notin Gone,
           NEW u \in PlanUpdates, Save(o, u)
    PROVE  SnapAfterSave(o) \in Snaps
<1>1. PICK q \in Runs : q = ctl[o].run
  BY EngagedFacts
<1>2. QED BY <1>1, SnapAfterSaveIsFresh

LEMMA SaveAndIterateIsPreserved ==
    ASSUME IInv, NEW o \in Owners, ctl[o].pc \notin Gone,
           NEW u \in PlanUpdates, SaveAndIterate(o, u)
    PROVE  Preserved(o)
<1> DEFINE c == [ctl[o] EXCEPT !.snap = SnapAfterSave(o)]
<1>1. ctl[o] \in Locals /\ ctl[o].run \in Runs /\ ctl[o].fin # "completed"
  BY EngagedFacts DEF LocalInv
<1>2. SnapAfterSave(o) \in Snaps
  BY SnapAfterSaveIsSnap DEF SaveAndIterate
<1>3. c \in Locals /\ c.run = ctl[o].run /\ c.snap = SnapAfterSave(o)
      /\ c.fin = ctl[o].fin
  BY <1>1, <1>2 DEF Locals
<1>4. ctl' = [ctl EXCEPT ![o] = NextIteration(c)]
  BY DEF SaveAndIterate, NextIteration, IInv
<1> HIDE DEF c
<1> DEFINE d == NextIteration(c)
<1>5. /\ d \in Locals /\ d.run = ctl[o].run /\ d.snap = SnapAfterSave(o)
      /\ d.pc \in {"loop", "finalReconcile"}
      /\ d.pc = "loop" => d.invoked < MaxCycles
      /\ d.fin # "completed"
  BY <1>1, <1>3, IterationIsLocals
<1>6. /\ d.pc \notin Gone \cup {"launched", "claim"}
      /\ d.pc \in InCycle => d.invoked < MaxCycles
  BY <1>5 DEF Gone, InCycle
<1> HIDE DEF d
<1>7. Save(o, u) /\ ctl' = [ctl EXCEPT ![o] = d]
  BY <1>4 DEF SaveAndIterate, d
<1>8. QED BY <1>5, <1>6, <1>7, SaveStepIsPreserved

LEMMA ReconcileStep ==
    ASSUME RowsInv, Reconcile PROVE Sound /\ \A o \in Owners : Unaffected(o)
<1>1. PICK D \in SUBSET Crashed : ReconcileStaleRuns(D)
  BY DEF Reconcile
<1>2. D \in SUBSET Owners
  BY DEF Crashed
<1>3. QED BY <1>1, <1>2, ReconcileIsSound

LEMMA ClaimReconcileIsPreserved ==
    ASSUME IInv, NEW o \in Owners, ClaimReconcile(o) PROVE Preserved(o)
<1> DEFINE c == [ctl[o] EXCEPT !.pc = "claim"]
<1>1. ctl[o].pc = "launched" /\ ctl[o] \in Locals /\ LocalInv(o)
  BY DEF ClaimReconcile, At, IInv
<1>2. Sound /\ \A p \in Owners : Unaffected(p)
  BY ReconcileStep DEF ClaimReconcile, IInv
<1>3. ctl' = [ctl EXCEPT ![o] = c] /\ c \in Locals
  BY <1>1 DEF ClaimReconcile, Goto, Locals, PCs
<1>4. c.pc = "claim" /\ c.run = ctl[o].run /\ c.fin = ctl[o].fin
  BY <1>1 DEF Locals
<1>5. ctl'[o] = c
  BY <1>3 DEF IInv
<1> HIDE DEF c
<1>6. \A r \in Runs : ~ OwnedBy(r, o)'
  BY <1>1, <1>2 DEF LocalInv, Unaffected
<1>7. LocalInv(o)'
  BY <1>1, <1>4, <1>5, <1>6 DEF LocalInv, Gone, InCycle
<1>8. QED BY <1>2, <1>3, <1>7 DEF Preserved

LEMMA ClaimIsSound ==
    ASSUME RowsInv, NEW q \in Runs, NEW o \in Owners, ClaimRun(q, o)
    PROVE  /\ Sound /\ \A p \in Owners \ {o} : Unaffected(p)
           /\ Snapshot(runs'[q]) = Snapshot(runs[q])
           /\ \A r \in Runs \ {q} : runs'[r] = runs[r]
<1>1. TypeOK
  BY DEF RowsInv
<1>2. \A r \in Runs : RowStep(r)
  BY <1>1, OperationIsRowStep
<1>3. runs' = [r \in Runs |-> runs'[r]]
  BY <1>1, OperationKeepsDomain
<1>4. \A r \in Runs \ {q} : runs'[r] = runs[r]
  BY <1>1 DEF TypeOK, ClaimRun
<1>5. runs'[q] = Claimed(runs[q], o) /\ runs[q] \in Row
  BY <1>1 DEF TypeOK, ClaimRun
<1>6. SameLedger(runs'[q], runs[q])
  BY <1>5, ClaimedIsRow
<1>7. runs'[q].owner = o /\ runs'[q].status # "completed"
  BY <1>5, ClaimedIsRow DEF Active
<1>8. \A r \in Runs : runs'[r].plan = runs[r].plan
  BY <1>4, <1>6 DEF SameLedger
<1>9. Sound
  BY <1>2, <1>3, <1>4, <1>7, <1>8 DEF Sound, RowsInv
<1>10. \A p \in Owners \ {o} : Unaffected(p)
  BY <1>4, <1>7 DEF Unaffected, OwnedBy, IsActive
<1>11. QED BY <1>4, <1>6, <1>9, <1>10, SnapshotOfLedger

LEMMA ClaimIsPreserved ==
    ASSUME IInv, NEW o \in Owners, Claim(o) PROVE Preserved(o)
<1>1. ctl[o].pc = "claim" /\ ctl[o].pc \notin Gone
  BY DEF Claim, At, Gone
<1>2. PICK q \in Runs : q = ctl[o].run
  BY <1>1, EngagedFacts
<1>3. ctl[o] \in Locals /\ LocalInv(o) /\ RowsInv /\ runs[q] \in Row
  BY <1>1, <1>2, EngagedFacts
<1> DEFINE plan == runs[q].plan
           snap == Snapshot(runs[q])
           c == [ctl[o] EXCEPT !.plan = plan, !.snap = snap]
           d == IF HasRunning(c.plan) THEN [c EXCEPT !.pc = "repair"]
                                      ELSE Resumed(c)
<1>4. plan \in Plans /\ snap \in Snaps
  BY <1>3, RowGivesSnap DEF RowsInv
<1>5. CASE ClaimRun(q, o) /\ ctl' = [ctl EXCEPT ![o] = d]
  <2> HIDE DEF plan, snap
  <2>1. c \in Locals /\ c.run = q /\ c.snap = snap /\ c.fin # "completed"
    BY <1>2, <1>3, <1>4 DEF Locals, LocalInv
  <2> HIDE DEF c
  <2>4. /\ d \in Locals /\ d.run = q /\ d.snap = snap /\ d.fin # "completed"
        /\ d.pc \notin Gone \cup {"launched", "claim"}
        /\ d.pc \in InCycle => d.invoked < MaxCycles
    <3>1. CASE d = [c EXCEPT !.pc = "repair"]
      <4>1. "repair" \in PCs
        BY DEF PCs, InTry
      <4>2. d \in Locals /\ d.pc = "repair" /\ d.run = q /\ d.snap = snap
            /\ d.fin # "completed"
        BY <2>1, <3>1, <4>1 DEF Locals
      <4>3. QED BY <4>2 DEF Gone, InCycle
    <3>2. CASE d = Resumed(c)
      BY <2>1, <3>2, ResumedIsLocals DEF Gone, InCycle
    <3>3. QED BY <3>1, <3>2
  <2> HIDE DEF d
  <2>5. /\ Sound /\ \A p \in Owners \ {o} : Unaffected(p)
        /\ snap = Snapshot(runs'[q])
    BY <1>3, <1>5, ClaimIsSound DEF snap
  <2>6. QED BY <1>2, <1>5, <2>4, <2>5, ContinueIsPreserved
<1>6. CASE Return(o) /\ UNCHANGED runs
  BY <1>3, <1>6, UnchangedIsSound, ReturnIsPreserved
<1>7. QED BY <1>2, <1>5, <1>6 DEF Claim

\* Saves that build a plan and go on where a claimed run goes on.
LEMMA ResumeAfterSave ==
    ASSUME IInv, NEW o \in Owners, ctl[o].pc \notin Gone, NEW plan \in Plans,
           NEW u \in PlanUpdates, Save(o, u),
           ctl' = [ctl EXCEPT ![o] =
                      Resumed([ctl[o] EXCEPT !.plan = plan,
                                             !.snap = SnapAfterSave(o)])]
    PROVE  Preserved(o)
<1> DEFINE c == [ctl[o] EXCEPT !.plan = plan, !.snap = SnapAfterSave(o)]
           d == Resumed(c)
<1>1. ctl[o] \in Locals /\ ctl[o].fin # "completed"
  BY EngagedFacts DEF LocalInv
<1>2. SnapAfterSave(o) \in Snaps
  BY SnapAfterSaveIsSnap
<1>3. c \in Locals /\ c.run = ctl[o].run /\ c.snap = SnapAfterSave(o)
      /\ c.fin = ctl[o].fin
  BY <1>1, <1>2 DEF Locals
<1>4. ctl' = [ctl EXCEPT ![o] = d]
  OBVIOUS
<1> HIDE DEF c
<1>5. /\ d \in Locals /\ d.run = ctl[o].run /\ d.snap = SnapAfterSave(o)
      /\ d.fin # "completed"
      /\ d.pc \notin Gone \cup {"launched", "claim"}
      /\ d.pc \in InCycle => d.invoked < MaxCycles
  BY <1>1, <1>3, ResumedIsLocals DEF Gone, InCycle
<1> HIDE DEF d
<1>6. QED BY <1>4, <1>5, SaveStepIsPreserved

LEMMA RepairIsPreserved ==
    ASSUME IInv, NEW o \in Owners, Repair(o) PROVE Preserved(o)
<1> DEFINE plan == Repaired(ctl[o].plan)
           u == [NullUpdate EXCEPT !.plan = plan, !.status = "running"]
<1>1. ctl[o].pc \notin Gone
  BY DEF Repair, At, Gone
<1>2. plan \in Plans
  BY <1>1, EngagedFacts, RepairedIsPlan DEF Locals
<1> HIDE DEF plan
<1>3. u \in PlanUpdates
  <2>1. u \in Updates /\ u.plan = plan
    BY <1>2, NullIsUpdate, PlanIsColumn DEF Updates
  <2>2. QED BY <1>2, <2>1 DEF PlanUpdates
<1>4. /\ Save(o, u)
      /\ ctl' = [ctl EXCEPT ![o] =
                    Resumed([ctl[o] EXCEPT !.plan = plan,
                                           !.snap = SnapAfterSave(o)])]
  BY DEF Repair, plan
<1> HIDE DEF u
<1>5. QED BY <1>1, <1>2, <1>3, <1>4, ResumeAfterSave

LEMMA SavePlanIsPreserved ==
    ASSUME IInv, NEW o \in Owners, SavePlan(o) PROVE Preserved(o)
<1>1. ctl[o].pc \notin Gone
  BY DEF SavePlan, At, Gone
<1>2. PICK kinds \in PlannerTasks :
        LET plan == NormalizePlan(kinds)
        IN  /\ Save(o, [NullUpdate EXCEPT !.plan = plan, !.criteria = TRUE,
                                          !.status = "running"])
            /\ ctl' = [ctl EXCEPT ![o] =
                          Resumed([@ EXCEPT !.plan = plan,
                                            !.snap = SnapAfterSave(o)])]
  BY DEF SavePlan
<1> DEFINE plan == NormalizePlan(kinds)
           u == [NullUpdate EXCEPT !.plan = plan, !.criteria = TRUE,
                                   !.status = "running"]
<1>3. kinds \in Seq(Kinds)
  BY ControllerAssumption DEF ControllerAssumption
<1>4. plan \in Plans
  BY <1>3, ControllerAssumption, NormalizedIsPlan
<1> HIDE DEF plan
<1>5. u \in PlanUpdates
  <2>1. u \in Updates /\ u.plan = plan
    BY <1>4, NullIsUpdate, PlanIsColumn DEF Updates
  <2>2. QED BY <1>4, <2>1 DEF PlanUpdates
<1>6. /\ Save(o, u)
      /\ ctl' = [ctl EXCEPT ![o] =
                    Resumed([ctl[o] EXCEPT !.plan = plan,
                                           !.snap = SnapAfterSave(o)])]
  BY <1>2 DEF plan
<1> HIDE DEF u
<1>7. QED BY <1>1, <1>4, <1>5, <1>6, ResumeAfterSave

LEMMA ReadFlagsIsPreserved ==
    ASSUME IInv, NEW o \in Owners, ReadFlags(o) PROVE Preserved(o)
<1> DEFINE pc == ctl[o].pc
<1>1. pc \in {"planning", "loop", "work", "preCheckpoint", "checkpoint",
              "failure", "completion", "final"}
  BY DEF ReadFlags, AfterFlags
<1>2. pc \notin Gone
  BY <1>1 DEF Gone
<1>3. PICK q \in Runs : q = ctl[o].run
  BY <1>2, EngagedFacts
<1>4. Sound /\ \A p \in Owners : Unaffected(p)
  BY <1>2, EngagedFacts, UnchangedIsSound DEF ReadFlags
<1>5. ASSUME Goto(o, "failReconcile") PROVE Preserved(o)
  BY <1>3, <1>4, <1>5, GotoIsPreserved DEF PCs, Gone, InCycle
<1>6. ASSUME NEW s \in {"cancelled", "paused"}, GotoFinish(o, s)
      PROVE  Preserved(o)
  BY <1>3, <1>4, <1>6, GotoFinishIsPreserved
  DEF GotoFinish, FinishStatuses, Terminal
<1>7. ASSUME ctl' = [ctl EXCEPT ![o].pc = "checkpointStop", ![o].fin = "paused"]
      PROVE  Preserved(o)
  <2>1. "paused" \in FinishStatuses \ {"completed"}
    BY DEF FinishStatuses
  <2> HIDE DEF pc
  <2>2. QED BY <1>3, <1>4, <1>7, <2>1, GotoFinishIsPreserved
<1>8. ASSUME Goto(o, AfterFlags[pc]) PROVE Preserved(o)
  <2> DEFINE next == AfterFlags[pc]
  <2>1. /\ next \in PCs /\ next \notin Gone \cup {"launched", "claim"}
        /\ next \in InCycle => pc \in InCycle
    BY <1>1 DEF AfterFlags, PCs, InTry, Gone, InCycle
  <2>2. next \in InCycle => ctl[o].invoked < MaxCycles
    BY <2>1 DEF IInv, LocalInv
  <2>3. PICK n \in PCs : n = next
    BY <2>1
  <2>4. QED BY <1>3, <1>4, <1>8, <2>1, <2>2, <2>3, GotoIsPreserved
<1>9. QED BY <1>5, <1>6, <1>7, <1>8 DEF ReadFlags

LEMMA LoopReconcileIsPreserved ==
    ASSUME IInv, NEW o \in Owners, LoopReconcile(o) PROVE Preserved(o)
<1>1. /\ Reconcile
      /\ \/ ctl[o].pc = "reconcile" /\ Goto(o, "read")
         \/ ctl[o].pc = "finalReconcile" /\ Goto(o, "finalRead")
         \/ ctl[o].pc = "failReconcile" /\ Goto(o, "fail")
  BY DEF LoopReconcile, At
<1>2. ctl[o].pc \notin Gone
  BY <1>1 DEF Gone
<1>3. PICK q \in Runs : q = ctl[o].run
  BY <1>2, EngagedFacts
<1>4. Sound /\ \A p \in Owners : Unaffected(p)
  BY <1>1, ReconcileStep DEF IInv
<1>5. CASE ctl[o].pc = "reconcile" /\ Goto(o, "read")
  <2>1. ctl[o].invoked < MaxCycles
    BY <1>5 DEF IInv, LocalInv, InCycle
  <2>2. QED BY <1>3, <1>4, <1>5, <2>1, GotoIsPreserved DEF PCs, InTry, Gone
<1>6. CASE Goto(o, "finalRead") \/ Goto(o, "fail")
  BY <1>3, <1>4, <1>6, GotoIsPreserved DEF PCs, InTry, Gone, InCycle
<1>7. QED BY <1>1, <1>5, <1>6

\* A step that fetches the row: the snapshot becomes the row.
LEMMA FetchIsPreserved ==
    ASSUME IInv, NEW o \in Owners, NEW q \in Runs, q = ctl[o].run,
           ctl[o].pc \notin Gone, UNCHANGED runs,
           NEW c \in Locals, ctl' = [ctl EXCEPT ![o] = c],
           c.run = q, c.snap = Snapshot(runs[q]),
           c.pc \notin Gone \cup {"launched", "claim"},
           c.pc \in InCycle => c.invoked < MaxCycles,
           c.fin # "completed"
    PROVE  Preserved(o)
<1>1. Sound /\ \A p \in Owners : Unaffected(p)
  BY UnchangedIsSound DEF IInv
<1>2. c.snap = Snapshot(runs'[q])
  OBVIOUS
<1>3. QED BY <1>1, <1>2, ContinueIsPreserved

LEMMA ReadRunIsPreserved ==
    ASSUME IInv, NEW o \in Owners, ReadRun(o) PROVE Preserved(o)
<1>1. ctl[o].pc = "read" /\ ctl[o].pc \notin Gone /\ UNCHANGED runs
  BY DEF ReadRun, At, Gone
<1>2. PICK q \in Runs : q = ctl[o].run
  BY <1>1, EngagedFacts
<1>3. ctl[o] \in Locals /\ LocalInv(o) /\ runs[q] \in Row /\ runs[q].plan \in Plans
  BY <1>1, <1>2, EngagedFacts DEF RowsInv
<1>4. ctl[o].invoked < MaxCycles /\ ctl[o].fin # "completed"
  BY <1>1, <1>3 DEF LocalInv, InCycle
<1> DEFINE snap == Snapshot(runs[q])
           plan == runs[q].plan
           c == [ctl[o] EXCEPT !.snap = snap]
<1>5. snap \in Snaps
  BY <1>3, RowGivesSnap
<1>6. \/ ctl' = [ctl EXCEPT ![o] = [c EXCEPT !.pc = "finish", !.fin = "blocked"]]
      \/ ctl' = [ctl EXCEPT ![o] = [c EXCEPT !.pc = "completion"]]
      \/ \E i \in Pending(plan) :
            ctl' = [ctl EXCEPT ![o] =
                       [c EXCEPT !.pc = "startTask", !.plan = plan, !.task = i]]
  BY <1>2 DEF ReadRun
<1>7. plan \in Plans
  BY <1>3
<1> HIDE DEF snap, plan
<1>8. c \in Locals /\ c.run = q /\ c.snap = snap /\ c.invoked = ctl[o].invoked
      /\ c.fin = ctl[o].fin
  BY <1>2, <1>3, <1>5 DEF Locals
<1> HIDE DEF c
<1>9. ASSUME NEW d \in Locals, ctl' = [ctl EXCEPT ![o] = d],
             d.run = q, d.snap = snap, d.invoked = ctl[o].invoked,
             d.pc \in {"finish", "completion", "startTask"},
             d.fin # "completed"
      PROVE  Preserved(o)
  <2>1. d.pc \notin Gone \cup {"launched", "claim"}
    BY <1>9 DEF Gone
  <2>2. QED BY <1>1, <1>2, <1>4, <1>9, <2>1, FetchIsPreserved DEF snap
<1>10. CASE ctl' = [ctl EXCEPT ![o] = [c EXCEPT !.pc = "finish", !.fin = "blocked"]]
  <2> DEFINE d == [c EXCEPT !.pc = "finish", !.fin = "blocked"]
  <2>1. "finish" \in PCs /\ "blocked" \in FinishStatuses
    BY DEF PCs, InTry, FinishStatuses
  <2>2. d \in Locals /\ d.run = q /\ d.snap = snap /\ d.pc = "finish"
        /\ d.invoked = ctl[o].invoked /\ d.fin = "blocked"
    BY <1>8, <2>1 DEF Locals
  <2> HIDE DEF d
  <2>3. QED BY <1>9, <1>10, <2>2 DEF d
<1>11. CASE ctl' = [ctl EXCEPT ![o] = [c EXCEPT !.pc = "completion"]]
  <2> DEFINE d == [c EXCEPT !.pc = "completion"]
  <2>1. "completion" \in PCs
    BY DEF PCs, InTry
  <2>2. d \in Locals /\ d.run = q /\ d.snap = snap /\ d.pc = "completion"
        /\ d.invoked = ctl[o].invoked /\ d.fin # "completed"
    BY <1>4, <1>8, <2>1 DEF Locals
  <2> HIDE DEF d
  <2>3. QED BY <1>9, <1>11, <2>2 DEF d
<1>12. ASSUME NEW i \in Pending(plan),
              ctl' = [ctl EXCEPT ![o] =
                         [c EXCEPT !.pc = "startTask", !.plan = plan, !.task = i]]
       PROVE  Preserved(o)
  <2> DEFINE d == [c EXCEPT !.pc = "startTask", !.plan = plan, !.task = i]
  <2>1. "startTask" \in PCs
    BY DEF PCs, InTry
  <2>2. i \in 0..MaxTasks
    <3>1. i \in 1..Len(plan)
      BY <1>7, PlanTasks DEF Pending
    <3>2. QED BY <1>7, <3>1, PlanTasks, Constants
  <2>3. d \in Locals /\ d.run = q /\ d.snap = snap /\ d.pc = "startTask"
        /\ d.invoked = ctl[o].invoked /\ d.fin # "completed"
    BY <1>4, <1>7, <1>8, <2>1, <2>2 DEF Locals
  <2> HIDE DEF d
  <2>4. QED BY <1>9, <1>12, <2>3 DEF d
<1>13. QED BY <1>6, <1>10, <1>11, <1>12

LEMMA FinalReadIsPreserved ==
    ASSUME IInv, NEW o \in Owners, FinalRead(o) PROVE Preserved(o)
<1>1. ctl[o].pc \notin Gone /\ UNCHANGED runs
  BY DEF FinalRead, At, Gone
<1>2. PICK q \in Runs : q = ctl[o].run
  BY <1>1, EngagedFacts
<1>3. ctl[o] \in Locals /\ runs[q] \in Row /\ runs[q].plan \in Plans
  BY <1>1, <1>2, EngagedFacts DEF RowsInv
<1> DEFINE snap == Snapshot(runs[q])
           pc == IF Pending(runs[q].plan) = {} THEN "final" ELSE "finish"
           c == [ctl[o] EXCEPT !.snap = snap, !.fin = "paused", !.pc = pc]
<1>4. snap \in Snaps
  BY <1>3, RowGivesSnap
<1>5. ctl' = [ctl EXCEPT ![o] = c]
  BY <1>2 DEF FinalRead, IInv
<1>6. pc \in PCs /\ pc \notin Gone \cup InCycle \cup {"launched", "claim"}
      /\ "paused" \in FinishStatuses
  BY DEF PCs, InTry, Gone, InCycle, FinishStatuses
<1> HIDE DEF snap, pc
<1>7. c \in Locals /\ c.run = q /\ c.snap = snap /\ c.pc = pc /\ c.fin = "paused"
  BY <1>2, <1>3, <1>4, <1>6 DEF Locals
<1> HIDE DEF c
<1>8. QED BY <1>1, <1>2, <1>5, <1>6, <1>7, FetchIsPreserved DEF snap

LEMMA StartTaskIsPreserved ==
    ASSUME IInv, NEW o \in Owners, StartTask(o) PROVE Preserved(o)
<1> DEFINE plan == Started(ctl[o].plan, ctl[o].task)
           u == [NullUpdate EXCEPT !.plan = plan, !.status = "running",
                                   !.current = ctl[o].task]
           c == [ctl[o] EXCEPT !.pc = "work", !.plan = plan,
                               !.snap = SnapAfterSave(o)]
<1>1. ctl[o].pc = "startTask" /\ ctl[o].pc \notin Gone
  BY DEF StartTask, At, Gone
<1>2. ctl[o] \in Locals /\ LocalInv(o)
  BY <1>1, EngagedFacts
<1>3. ctl[o].invoked < MaxCycles /\ ctl[o].fin # "completed"
      /\ ctl[o].task \in 0..MaxTasks
  BY <1>1, <1>2 DEF LocalInv, InCycle, Locals
<1>4. plan \in Plans
  BY <1>2, StartedIsPlan DEF Locals
<1>5. Save(o, u) /\ ctl' = [ctl EXCEPT ![o] = c]
  BY DEF StartTask, IInv
<1> HIDE DEF plan
<1>6. u \in PlanUpdates
  <2>1. u \in Updates /\ u.plan = plan
    BY <1>3, <1>4, NullIsUpdate, PlanIsColumn DEF Updates
  <2>2. QED BY <1>4, <2>1 DEF PlanUpdates
<1> HIDE DEF u
<1>7. SnapAfterSave(o) \in Snaps
  BY <1>1, <1>5, <1>6, SnapAfterSaveIsSnap
<1>8. "work" \in PCs
  BY DEF PCs, InTry
<1>9. c \in Locals /\ c.run = ctl[o].run /\ c.snap = SnapAfterSave(o)
      /\ c.pc = "work" /\ c.invoked = ctl[o].invoked /\ c.fin = ctl[o].fin
  BY <1>2, <1>4, <1>7, <1>8 DEF Locals
<1> HIDE DEF c
<1>10. c.pc \notin Gone \cup {"launched", "claim"}
  BY <1>9 DEF Gone
<1>11. QED BY <1>1, <1>3, <1>5, <1>6, <1>9, <1>10, SaveStepIsPreserved

LEMMA CheckpointStopIsPreserved ==
    ASSUME IInv, NEW o \in Owners, CheckpointStop(o) PROVE Preserved(o)
<1> DEFINE u == [NullUpdate EXCEPT !.checkpoints = 1]
           c == [ctl[o] EXCEPT !.pc = "finish", !.snap = SnapAfterSave(o)]
<1>1. ctl[o].pc \notin Gone
  BY DEF CheckpointStop, At, Gone
<1>2. ctl[o] \in Locals /\ ctl[o].fin # "completed"
  BY <1>1, EngagedFacts DEF LocalInv
<1>3. Save(o, u) /\ ctl' = [ctl EXCEPT ![o] = c]
  BY DEF CheckpointStop, IInv
<1>4. u \in PlanUpdates
  BY NullIsUpdate DEF PlanUpdates, Updates
<1> HIDE DEF u
<1>5. SnapAfterSave(o) \in Snaps
  BY <1>1, <1>3, <1>4, SnapAfterSaveIsSnap
<1>6. "finish" \in PCs
  BY DEF PCs, InTry
<1>7. c \in Locals /\ c.run = ctl[o].run /\ c.snap = SnapAfterSave(o)
      /\ c.pc = "finish" /\ c.fin = ctl[o].fin
  BY <1>2, <1>5, <1>6 DEF Locals
<1> HIDE DEF c
<1>8. c.pc \notin Gone \cup InCycle \cup {"launched", "claim"}
  BY <1>7 DEF Gone, InCycle
<1>9. QED BY <1>1, <1>2, <1>3, <1>4, <1>7, <1>8, SaveStepIsPreserved

\* The result of a task: one more cycle of the invocation.
LEMMA RecordResultIsPreserved ==
    ASSUME IInv, NEW o \in Owners, RecordResult(o) PROVE Preserved(o)
<1>1. ctl[o].pc = "record" /\ ctl[o].pc \notin Gone
  BY DEF RecordResult, At, Gone
<1>2. ctl[o] \in Locals /\ LocalInv(o)
  BY <1>1, EngagedFacts
<1>3. ctl[o].invoked < MaxCycles /\ ctl[o].fin # "completed"
      /\ ctl[o].invoked \in 0..MaxCycles
  BY <1>1, <1>2 DEF LocalInv, InCycle, Locals
<1> DEFINE i == ctl[o].task
           kind == ctl[o].plan[i].kind
           planOf(work) == Recorded(ctl[o].plan, i, work)
           cOf(work) == [ctl[o] EXCEPT !.plan = planOf(work),
                                       !.snap = SnapAfterSave(o),
                                       !.invoked = @ + 1]
           uOf(work) == [NullUpdate EXCEPT
                            !.plan = planOf(work), !.current = 0, !.cycles = 1,
                            !.failures = IF TaskPassed(work, kind) THEN 0 ELSE 1]
<1>4. PICK work \in WorkResults :
        /\ Save(o, uOf(work))
        /\ \/ ctl' = [ctl EXCEPT ![o] = [cOf(work) EXCEPT !.pc = "preCheckpoint"]]
           \/ ctl' = [ctl EXCEPT ![o] = NextIteration(cOf(work))]
           \/ ctl' = [ctl EXCEPT ![o] = [cOf(work) EXCEPT !.pc = "finish",
                                                          !.fin = "blocked"]]
           \/ ctl' = [ctl EXCEPT ![o] = [cOf(work) EXCEPT !.pc = "failure"]]
  <2> HIDE DEF cOf, uOf, planOf, kind, i
  <2>1. PICK work \in WorkResults :
        /\ Save(o, uOf(work))
        /\ ctl' = [ctl EXCEPT ![o] =
              IF TaskPassed(work, kind) /\ ShouldCheckpoint(kind, cOf(work).snap)
                THEN [cOf(work) EXCEPT !.pc = "preCheckpoint"]
              ELSE IF TaskPassed(work, kind) THEN NextIteration(cOf(work))
              ELSE IF cOf(work).snap.failures >= MaxFailures
                THEN [cOf(work) EXCEPT !.pc = "finish", !.fin = "blocked"]
              ELSE [cOf(work) EXCEPT !.pc = "failure"]]
    BY DEF RecordResult, cOf, uOf, planOf, kind, i
  <2>2. QED BY <2>1
<1> DEFINE plan == planOf(work)
           n == IF TaskPassed(work, kind) THEN 0 ELSE 1
           u == uOf(work)
           c == cOf(work)
<1>5. plan \in Plans
  BY <1>2, RecordedIsPlan DEF Locals
<1>6. n \in {0, 1} /\ u = [NullUpdate EXCEPT !.plan = plan, !.current = 0,
                                             !.cycles = 1, !.failures = n]
  OBVIOUS
<1>7. c = [ctl[o] EXCEPT !.plan = plan, !.snap = SnapAfterSave(o), !.invoked = @ + 1]
  OBVIOUS
<1>8. Save(o, u)
  BY <1>4
<1> HIDE DEF plan, n, u, c
<1>9. u \in PlanUpdates
  <2>1. u \in Updates /\ u.plan = plan
    BY <1>5, <1>6, NullIsUpdate, PlanIsColumn, Constants DEF Updates
  <2>2. QED BY <1>5, <2>1 DEF PlanUpdates
<1>10. SnapAfterSave(o) \in Snaps
  BY <1>1, <1>8, <1>9, SnapAfterSaveIsSnap
<1>11. ctl[o].invoked + 1 \in 0..MaxCycles
  BY <1>3, Constants
<1>12. c \in Locals /\ c.run = ctl[o].run /\ c.snap = SnapAfterSave(o)
       /\ c.fin = ctl[o].fin
  BY <1>2, <1>5, <1>7, <1>10, <1>11 DEF Locals
<1>13. ASSUME NEW d \in Locals, ctl' = [ctl EXCEPT ![o] = d],
              d.run = c.run, d.snap = c.snap, d.fin # "completed",
              d.pc \in {"preCheckpoint", "loop", "finalReconcile", "finish",
                        "failure"},
              d.pc = "loop" => d.invoked < MaxCycles
       PROVE  Preserved(o)
  <2>1. /\ d.pc \notin Gone \cup {"launched", "claim"}
        /\ d.pc \in InCycle => d.invoked < MaxCycles
    BY <1>13 DEF Gone, InCycle
  <2>2. QED BY <1>1, <1>8, <1>9, <1>12, <1>13, <2>1, SaveStepIsPreserved
<1>14. ASSUME NEW pc \in {"preCheckpoint", "failure"},
              ctl' = [ctl EXCEPT ![o] = [c EXCEPT !.pc = pc]]
       PROVE  Preserved(o)
  <2> DEFINE d == [c EXCEPT !.pc = pc]
  <2>1. pc \in PCs
    BY DEF PCs, InTry
  <2>2. d \in Locals /\ d.run = c.run /\ d.snap = c.snap /\ d.fin = c.fin /\ d.pc = pc
    BY <1>12, <2>1 DEF Locals
  <2>3. ctl' = [ctl EXCEPT ![o] = d]
    BY <1>14
  <2> HIDE DEF d
  <2>4. QED BY <1>3, <1>12, <1>13, <2>2, <2>3
<1>15. ASSUME ctl' = [ctl EXCEPT ![o] = NextIteration(c)] PROVE Preserved(o)
  BY ZenonT(60), <1>3, <1>12, <1>13, <1>15, IterationIsLocals
<1>16. ASSUME ctl' = [ctl EXCEPT ![o] = [c EXCEPT !.pc = "finish", !.fin = "blocked"]]
       PROVE  Preserved(o)
  <2> DEFINE d == [c EXCEPT !.pc = "finish", !.fin = "blocked"]
  <2>1. "finish" \in PCs /\ "blocked" \in FinishStatuses
    BY DEF PCs, InTry, FinishStatuses
  <2>2. d \in Locals /\ d.run = c.run /\ d.snap = c.snap /\ d.fin = "blocked"
        /\ d.pc = "finish"
    BY <1>12, <2>1 DEF Locals
  <2>3. ctl' = [ctl EXCEPT ![o] = d]
    BY <1>16
  <2> HIDE DEF d
  <2>4. QED BY <1>13, <2>2, <2>3
<1>17. QED BY <1>4, <1>14, <1>15, <1>16 DEF c

LEMMA SaveReplanIsPreserved ==
    ASSUME IInv, NEW o \in Owners, ctl[o].pc \notin Gone,
           NEW dropped, NEW checkpoints \in {0, 1},
           SaveReplan(o, dropped, checkpoints)
    PROVE  Preserved(o)
<1>1. PICK kinds \in ReplanTasks \cup {<<>>} :
        SaveAndIterate(o, [NullUpdate EXCEPT
            !.plan = AppendReplan(ctl[o].snap.plan, dropped, kinds),
            !.replans = 1, !.checkpoints = checkpoints])
  BY DEF SaveReplan
<1> DEFINE plan == AppendReplan(ctl[o].snap.plan, dropped, kinds)
           u == [NullUpdate EXCEPT !.plan = plan, !.replans = 1,
                                   !.checkpoints = checkpoints]
<1>2. kinds \in Seq(Kinds)
  BY ControllerAssumption, EmptySeq DEF ControllerAssumption
<1>3. ctl[o].snap.plan \in Plans
  BY EngagedFacts DEF Locals, Snaps
<1>4. plan \in Plans
  BY <1>2, <1>3, ReplannedIsPlan
<1>5. SaveAndIterate(o, u)
  BY <1>1
<1> HIDE DEF plan
<1>6. u \in PlanUpdates
  <2>1. u \in Updates /\ u.plan = plan
    BY <1>4, NullIsUpdate, PlanIsColumn DEF Updates
  <2>2. QED BY <1>4, <2>1 DEF PlanUpdates
<1> HIDE DEF u
<1>7. QED BY <1>5, <1>6, SaveAndIterateIsPreserved

LEMMA CheckpointDecideIsPreserved ==
    ASSUME IInv, NEW o \in Owners, CheckpointDecide(o) PROVE Preserved(o)
<1>1. ctl[o].pc \notin Gone
  BY DEF CheckpointDecide, At, Gone
<1>2. ASSUME NEW stale, SaveReplan(o, stale, 1) PROVE Preserved(o)
  BY <1>1, <1>2, SaveReplanIsPreserved
<1>3. ASSUME SaveAndIterate(o, [NullUpdate EXCEPT !.checkpoints = 1])
      PROVE  Preserved(o)
  <2>1. [NullUpdate EXCEPT !.checkpoints = 1] \in PlanUpdates
    BY NullIsUpdate DEF PlanUpdates, Updates
  <2>2. QED BY <1>1, <1>3, <2>1, SaveAndIterateIsPreserved
<1>4. ASSUME NEW s \in {"paused", "blocked"}, UNCHANGED runs,
             ctl' = [ctl EXCEPT ![o].pc = "checkpointStop", ![o].fin = s]
      PROVE  Preserved(o)
  <2>1. s \in FinishStatuses \ {"completed"}
    BY DEF FinishStatuses
  <2>2. PICK q \in Runs : q = ctl[o].run
    BY <1>1, EngagedFacts
  <2>3. Sound /\ \A p \in Owners : Unaffected(p)
    BY <1>4, UnchangedIsSound DEF IInv
  <2>4. QED BY <1>4, <2>1, <2>2, <2>3, GotoFinishIsPreserved
<1>5. QED BY <1>2, <1>3, <1>4 DEF CheckpointDecide

LEMMA FailureDecideIsPreserved ==
    ASSUME IInv, NEW o \in Owners, FailureDecide(o) PROVE Preserved(o)
<1>1. ctl[o].pc \notin Gone
  BY DEF FailureDecide, At, Gone
<1> DEFINE plan == [ctl[o].plan EXCEPT ![ctl[o].task].status = "pending"]
           u == [NullUpdate EXCEPT !.plan = plan]
<1>2. ASSUME SaveAndIterate(o, u) PROVE Preserved(o)
  <2>1. plan \in Plans
    BY <1>1, EngagedFacts, RetriedIsPlan DEF Locals
  <2> HIDE DEF plan
  <2>2. u \in Updates /\ u.plan = plan
    BY <2>1, NullIsUpdate, PlanIsColumn DEF Updates
  <2>3. u \in PlanUpdates
    BY <2>1, <2>2 DEF PlanUpdates
  <2> HIDE DEF u
  <2>4. QED BY <1>1, <1>2, <2>3, SaveAndIterateIsPreserved
<1>3. ASSUME SaveReplan(o, {ctl[o].task}, 0) PROVE Preserved(o)
  BY <1>1, <1>3, SaveReplanIsPreserved
<1>4. ASSUME NEW s \in {"paused", "blocked"}, Finish(o, s) PROVE Preserved(o)
  BY <1>1, <1>4, FinishStepIsPreserved DEF FinishStatuses
<1>5. QED BY <1>2, <1>3, <1>4 DEF FailureDecide

LEMMA CompletionDecideIsPreserved ==
    ASSUME IInv, NEW o \in Owners, CompletionDecide(o) PROVE Preserved(o)
<1>1. ctl[o].pc \notin Gone
  BY DEF CompletionDecide, At, Gone
<1>2. ASSUME CompletionGate(ctl[o].snap), Finish(o, "completed")
      PROVE  Preserved(o)
  BY <1>1, <1>2, FinishStepIsPreserved DEF FinishStatuses, Terminal
<1>3. ASSUME SaveReplan(o, {}, 0) PROVE Preserved(o)
  BY <1>1, <1>3, SaveReplanIsPreserved
<1>4. ASSUME NEW s \in {"paused", "blocked"}, Finish(o, s) PROVE Preserved(o)
  BY <1>1, <1>4, FinishStepIsPreserved DEF FinishStatuses
<1>5. QED BY <1>2, <1>3, <1>4 DEF CompletionDecide

LEMMA FinishingIsPreserved ==
    ASSUME IInv, NEW o \in Owners,
           FinalDecide(o) \/ FinishFlagged(o) \/ FailSafely(o)
    PROVE  Preserved(o)
<1>1. ctl[o].pc \notin Gone
  BY DEF FinalDecide, FinishFlagged, FailSafely, At, Gone
<1>2. CASE FinalDecide(o)
  BY <1>1, <1>2, FinishStepIsPreserved DEF FinalDecide, FinishStatuses, Terminal
<1>3. CASE FinishFlagged(o)
  <2>1. PICK s \in FinishStatuses : s = ctl[o].fin
    BY <1>1, EngagedFacts DEF Locals
  <2>2. s # "completed"
    BY <1>1, <2>1, EngagedFacts DEF LocalInv
  <2>3. QED BY <1>1, <1>3, <2>1, <2>2, FinishStepIsPreserved DEF FinishFlagged
<1>4. CASE FailSafely(o)
  BY <1>1, <1>4, FinishStepIsPreserved DEF FailSafely, FinishStatuses, Terminal
<1>5. QED BY <1>2, <1>3, <1>4

\* Every step a controller's thread takes.
LEMMA StepIsPreserved ==
    ASSUME IInv, NEW o \in Owners, Step(o) PROVE Preserved(o)
BY ClaimReconcileIsPreserved, ClaimIsPreserved, RepairIsPreserved,
   ReadFlagsIsPreserved, SavePlanIsPreserved, LoopReconcileIsPreserved,
   ReadRunIsPreserved, StartTaskIsPreserved, RecordResultIsPreserved,
   CheckpointDecideIsPreserved, CheckpointStopIsPreserved,
   FailureDecideIsPreserved, CompletionDecideIsPreserved,
   FinalReadIsPreserved, FinishingIsPreserved
DEF Step

\* Exceptions, crashes and restarts.
LEMMA DisturbanceIsPreserved ==
    ASSUME IInv, NEW o \in Owners, Raise(o) \/ Crash(o) \/ Restart(o)
    PROVE  Preserved(o)
<1>1. Sound /\ \A p \in Owners : Unaffected(p)
  BY UnchangedIsSound DEF IInv, Raise, Crash, Restart
<1>2. ASSUME ctl[o].pc \in InTry, Goto(o, "failReconcile") PROVE Preserved(o)
  <2>1. ctl[o].pc \notin Gone
    BY <1>2 DEF InTry, Gone
  <2>2. PICK q \in Runs : q = ctl[o].run
    BY <2>1, EngagedFacts
  <2>3. QED BY <1>1, <1>2, <2>2, GotoIsPreserved DEF PCs, Gone, InCycle
<1>3. ASSUME Return(o) PROVE Preserved(o)
  BY <1>1, <1>3, ReturnIsPreserved
<1>4. ASSUME ctl' = [ctl EXCEPT ![o] = [IdleCtl EXCEPT !.pc = "crashed"]]
      PROVE  Preserved(o)
  <2> DEFINE c == [IdleCtl EXCEPT !.pc = "crashed"]
  <2>1. c \in Locals /\ c.pc = "crashed" /\ c.run = NoRun /\ c.fin = "paused"
    BY IdleIsLocals DEF Locals, PCs
  <2>2. ctl' = [ctl EXCEPT ![o] = c]
    BY <1>4
  <2> HIDE DEF c
  <2>3. QED BY <1>1, <2>1, <2>2, LeaveIsPreserved DEF Gone
<1>5. QED BY <1>2, <1>3, <1>4 DEF Raise, Crash, Restart

LEMMA LaunchIsPreserved ==
    ASSUME IInv, NEW o \in Owners, NEW q \in Runs, NEW planOnly \in BOOLEAN,
           Launch(o, q, planOnly)
    PROVE  Preserved(o)
<1> DEFINE c == [IdleCtl EXCEPT !.pc = "launched", !.run = q, !.planOnly = planOnly]
<1>1. Sound /\ \A p \in Owners : Unaffected(p)
  BY UnchangedIsSound DEF IInv, Launch
<1>2. c \in Locals /\ c.pc = "launched" /\ c.run = q /\ c.fin = "paused"
  BY IdleIsLocals DEF Locals, PCs
<1>3. ctl' = [ctl EXCEPT ![o] = c]
  BY DEF Launch
<1> HIDE DEF c
<1>4. ctl'[o] = c
  BY <1>3 DEF IInv
<1>5. \A r \in Runs : ~ OwnedBy(r, o)'
  BY DEF Launch, OwnedBy, IsActive
<1>6. LocalInv(o)'
  BY <1>2, <1>4, <1>5, Constants DEF LocalInv, Gone, InCycle
<1>7. QED BY <1>1, <1>2, <1>3, <1>6 DEF Preserved

LEMMA InitIInv == Init => IInv
<1> SUFFICES ASSUME Init PROVE IInv
  OBVIOUS
<1>1. AbsentRow \in Row /\ AbsentRow.status = "absent"
      /\ AbsentRow.plan = <<>> /\ AbsentRow.owner = NoOwner
      /\ AbsentRow.lease = "none" /\ AbsentRow.current = 0
  BY Constants DEF AbsentRow, Row, Statuses, Plans
<1>2. RowsInv
  BY <1>1, Constants
  DEF Init, RowsInv, TypeOK, OwnershipCoherent, IsActive, Active,
      CompletionIsGrounded
<1>3. ctl \in [Owners -> Locals]
  BY IdleIsLocals DEF Init
<1>4. \A o \in Owners : LocalInv(o)
  BY IdleIsLocals, Constants DEF Init, LocalInv, Gone, InCycle
<1>5. QED BY <1>2, <1>3, <1>4 DEF IInv

LEMMA NextIsControllerOrWorld ==
    ASSUME IInv, Next
    PROVE  \/ \E o \in Owners : Preserved(o)
           \/ Sound /\ (\A p \in Owners : Unaffected(p)) /\ UNCHANGED ctl
<1>1. RowsInv
  BY DEF IInv
<1>2. ASSUME NEW o \in Owners,
             \/ Step(o) \/ Raise(o) \/ Crash(o) \/ Restart(o)
             \/ \E r \in Runs, planOnly \in BOOLEAN : Launch(o, r, planOnly)
      PROVE  Preserved(o)
  BY <1>2, StepIsPreserved, DisturbanceIsPreserved, LaunchIsPreserved
<1>3. ASSUME NEW o \in Owners, HeartbeatTick(o)
      PROVE  Sound /\ (\A p \in Owners : Unaffected(p)) /\ UNCHANGED ctl
  <2>1. PICK q \in Runs : q = ctl[o].run
    BY <1>3, EngagedFacts DEF HeartbeatTick, Gone
  <2>2. Heartbeat(q, o) /\ UNCHANGED ctl
    BY <1>3, <2>1 DEF HeartbeatTick
  <2>3. QED BY <1>1, <2>2, TouchIsSound
<1>4. ASSUME NEW r \in Runs, Operator(r) \/ Expire(r)
      PROVE  Sound /\ (\A p \in Owners : Unaffected(p)) /\ UNCHANGED ctl
  BY <1>1, <1>4, TouchIsSound DEF Operator, Expire
<1>5. ASSUME Query
      PROVE  Sound /\ (\A p \in Owners : Unaffected(p)) /\ UNCHANGED ctl
  BY <1>1, <1>5, ReconcileStep DEF Query
<1>6. QED BY <1>2, <1>3, <1>4, <1>5 DEF Next

LEMMA NextIInv == IInv /\ [Next]_vars => IInv'
<1>1. ASSUME IInv, UNCHANGED vars PROVE IInv'
  BY <1>1 DEF vars, IInv, RowsInv, TypeOK, OwnershipCoherent, IsActive,
              CompletionIsGrounded, LocalInv, OwnedBy
<1>2. ASSUME IInv, Next PROVE IInv'
  BY <1>2, NextIsControllerOrWorld, PreservedKeepsIInv, WorldKeepsIInv
<1>3. QED BY <1>1, <1>2

LEMMA NextIsRowStep ==
    ASSUME IInv, Next, NEW r \in Runs
    PROVE  RowStep(r) /\ runs[r] \in Row /\ RowOwnership(runs[r])
BY NextIsControllerOrWorld
DEF Preserved, Sound, IInv, RowsInv, TypeOK, OwnershipCoherent, RowOwnership,
    IsActive

-----------------------------------------------------------------------------
\* The rows keep the schema, and the locals of every controller their domains.
THEOREM ControllerTypeCorrect == Spec => []ControllerTypeOK
<1>1. IInv => ControllerTypeOK
  <2>1. ASSUME NEW c \in Locals
        PROVE  c \in [pc : PCs, run : Runs \cup {NoRun}, planOnly : BOOLEAN,
                      plan : Seq(Task), task : 0..MaxTasks,
                      snap : [plan : Seq(Task), criteria : BOOLEAN,
                              failures : Nat, checkpoints : Nat, replans : Nat],
                      invoked : 0..MaxCycles, fin : FinishStatuses]
    BY PlanIsColumn DEF Locals, Snaps
  <2>2. QED BY <2>1 DEF IInv, RowsInv, ControllerTypeOK
<1>2. QED BY <1>1, InitIInv, NextIInv, PTL DEF Spec

\* Whatever the controllers, operators, crashes and the clock do, a controller
\* that still owns its run holds the stored ledger: no save is a lost update.
THEOREM ControllerSnapshotFresh == Spec => []SnapshotFresh
<1>1. IInv => SnapshotFresh
  BY DEF IInv, Locals, LocalInv, SnapshotFresh
<1>2. QED BY <1>1, InitIInv, NextIInv, PTL DEF Spec

\* A run is completed only with a ledger that passes the host's gate.
THEOREM ControllerCompletionIsGrounded == Spec => []CompletionIsGrounded
<1>1. IInv => CompletionIsGrounded
  BY DEF IInv, RowsInv
<1>2. QED BY <1>1, InitIInv, NextIInv, PTL DEF Spec

\* Under the controllers, too, status, owner and lease of a run agree.
THEOREM ControllerOwnershipCoherent == Spec => []OwnershipCoherent
<1>1. IInv => OwnershipCoherent
  BY DEF IInv, RowsInv
<1>2. QED BY <1>1, InitIInv, NextIInv, PTL DEF Spec

\* No late save, finish or resume of any controller reaches an ended run.
THEOREM ControllerTerminalIsFinal == Spec => TerminalIsFinal
<1>1. IInv /\ [Next]_vars =>
        [\A r \in Runs : runs[r].status \in Terminal => runs'[r] = runs[r]]_runs
  <2> SUFFICES ASSUME IInv, Next, NEW r \in Runs, runs[r].status \in Terminal
               PROVE  runs'[r] = runs[r]
    BY DEF vars
  <2>1. QED
    BY NextIsRowStep, RowStepKeepsEnded
<1>2. QED BY <1>1, InitIInv, NextIInv, PTL DEF Spec, TerminalIsFinal

\* Once a cancel is recorded, no controller changes the ledger again.
THEOREM ControllerCancelFreezesLedger == Spec => CancelFreezesLedger
<1> DEFINE Frozen(r) ==
        /\ runs'[r].cancelReq
        /\ runs'[r].plan = runs[r].plan
        /\ runs'[r].criteria = runs[r].criteria
        /\ runs'[r].cycles = runs[r].cycles
        /\ runs'[r].failures = runs[r].failures
        /\ runs'[r].checkpoints = runs[r].checkpoints
        /\ runs'[r].replans = runs[r].replans
<1>1. IInv /\ [Next]_vars =>
        [\A r \in Runs : runs[r].cancelReq => Frozen(r)]_runs
  <2> SUFFICES ASSUME IInv, Next, NEW r \in Runs, runs[r].cancelReq
               PROVE  Frozen(r)
    BY DEF vars
  <2>1. QED
    BY NextIsRowStep, RowStepFreezes DEF SameLedger
<1>2. QED BY <1>1, InitIInv, NextIInv, PTL DEF Spec, CancelFreezesLedger

-----------------------------------------------------------------------------
\* The second invariant, about the ledger a run carries through any number of
\* invocations: its counters, its plan, and what a controller that may still
\* save has already checked of the row it saves next.

\* What a plan keeps from one save to the next.
Extends(new, old) ==
    /\ Len(old) <= Len(new)
    /\ \A i \in DOMAIN old :
          /\ new[i].kind = old[i].kind
          /\ old[i].status \in {"passed", "superseded"} => new[i] = old[i]

Survives(plan) ==
    \E i \in DOMAIN plan :
        plan[i].kind = "validate" /\ plan[i].status # "superseded"

RowBounded(row) ==
    /\ row.cycles <= MaxTotalCycles
    /\ row.failures <= row.cycles
    /\ row.checkpoints <= MaxCheckpoints
    /\ row.replans <= MaxReplans
    /\ row.plan # <<>> => Survives(row.plan)

\* What controller locals c have already checked of the row that is saved next.
TaskIs(c, row, status) ==
    /\ c.plan = row.plan
    /\ c.task \in DOMAIN row.plan
    /\ row.plan[c.task].status = status

Held(c, row) ==
    /\ c.pc = "repair" => c.plan = row.plan /\ HasRunning(row.plan)
    /\ c.pc \in {"planning", "savePlan"} => row.plan = <<>>
    /\ c.pc = "startTask" => TaskIs(c, row, "pending")
    /\ c.pc \in {"work", "record"} => TaskIs(c, row, "running")
    /\ c.pc \in {"failure", "failureDecide"} => TaskIs(c, row, "failed")
    /\ c.pc \in {"startTask", "work", "record"} => row.cycles < MaxTotalCycles
    /\ c.pc \in {"preCheckpoint", "checkpoint", "checkpointDecide", "checkpointStop"}
            => row.checkpoints < MaxCheckpoints

HeldLocal(o) ==
    \A r \in Runs : ctl[o].run = r /\ CanSave(r, o) => Held(ctl[o], runs[r])

LedgerInv ==
    /\ \A r \in Runs : RowBounded(runs[r])
    /\ \A o \in Owners : HeldLocal(o)

-----------------------------------------------------------------------------
\* The host's edits of a plan, as what an auditor may rely on.

LEMMA SamePlanExtends ==
    ASSUME NEW plan \in Plans PROVE Extends(plan, plan)
BY PlanTasks DEF Extends

\* A rewrite position by position that touches only tasks still in work.
Reworked(new, plan) ==
    /\ DOMAIN new = DOMAIN plan
    /\ \A i \in DOMAIN plan :
          \/ new[i] = plan[i]
          \/ /\ new[i].kind = plan[i].kind
             /\ plan[i].status \notin {"passed", "superseded"}
             /\ new[i].status # "superseded"

LEMMA ReworkedExtends ==
    ASSUME NEW plan \in Plans, NEW new \in Plans, Reworked(new, plan)
    PROVE  Extends(new, plan) /\ (Survives(plan) => Survives(new))
<1>1. Len(new) = Len(plan) /\ Len(plan) \in Nat
  BY PlanTasks DEF Reworked
<1>2. Extends(new, plan)
  BY <1>1 DEF Extends, Reworked
<1>3. Survives(plan) => Survives(new)
  BY DEF Survives, Reworked
<1>4. QED BY <1>2, <1>3

LEMMA RepairedReworks ==
    ASSUME NEW plan \in Plans PROVE Reworked(Repaired(plan), plan)
<1>1. \A i \in DOMAIN plan :
        Repaired(plan)[i] = IF plan[i].status = "running"
                              THEN [plan[i] EXCEPT !.status = "pending"] ELSE plan[i]
  BY DEF Repaired
<1>2. \A task \in Task : [task EXCEPT !.status = "pending"].kind = task.kind
                         /\ [task EXCEPT !.status = "pending"].status = "pending"
  BY DEF Task
<1>3. DOMAIN Repaired(plan) = DOMAIN plan
  BY DEF Repaired
<1>4. QED BY <1>1, <1>2, <1>3, PlanTasks DEF Reworked

LEMMA StartedReworks ==
    ASSUME NEW plan \in Plans, NEW i \in DOMAIN plan, plan[i].status = "pending"
    PROVE  /\ Reworked(Started(plan, i), plan)
           /\ DOMAIN Started(plan, i) = DOMAIN plan
           /\ Started(plan, i)[i].status = "running"
<1>1. /\ DOMAIN Started(plan, i) = DOMAIN plan
      /\ \A j \in DOMAIN plan \ {i} : Started(plan, i)[j] = plan[j]
  BY DEF Started
<1>2. plan[i] \in Task
  BY PlanTasks
<1>3. Started(plan, i)[i].kind = plan[i].kind /\ Started(plan, i)[i].status = "running"
  <2>1. PICK n : Started(plan, i)[i] = [plan[i] EXCEPT !.status = "running", !.attempts = n]
    BY DEF Started
  <2>2. QED BY <1>2, <2>1 DEF Task
<1>4. QED BY <1>1, <1>3 DEF Reworked

LEMMA RecordedReworks ==
    ASSUME NEW plan \in Plans, NEW i \in DOMAIN plan, plan[i].status = "running",
           NEW work \in WorkResults
    PROVE  /\ Reworked(Recorded(plan, i, work), plan)
           /\ DOMAIN Recorded(plan, i, work) = DOMAIN plan
           /\ Recorded(plan, i, work)[i].status =
                IF TaskPassed(work, plan[i].kind) THEN "passed" ELSE "failed"
<1> DEFINE status == IF TaskPassed(work, plan[i].kind) THEN "passed" ELSE "failed"
           v == plan[i].kind = "validate" /\ work.validated
<1>1. Recorded(plan, i, work) = [plan EXCEPT ![i].status = status, ![i].validated = v]
  BY DEF Recorded
<1>2. plan[i] \in Task
  BY PlanTasks
<1>3. status \in {"passed", "failed"}
  OBVIOUS
<1> HIDE DEF status, v
<1>4. /\ DOMAIN Recorded(plan, i, work) = DOMAIN plan
      /\ \A j \in DOMAIN plan \ {i} : Recorded(plan, i, work)[j] = plan[j]
      /\ Recorded(plan, i, work)[i] = [plan[i] EXCEPT !.status = status, !.validated = v]
  BY <1>1
<1>5. /\ Recorded(plan, i, work)[i].kind = plan[i].kind
      /\ Recorded(plan, i, work)[i].status = status
  BY <1>2, <1>4 DEF Task
<1>6. Reworked(Recorded(plan, i, work), plan)
  BY <1>3, <1>4, <1>5 DEF Reworked
<1>7. QED BY <1>4, <1>5, <1>6 DEF status

LEMMA RetriedReworks ==
    ASSUME NEW plan \in Plans, NEW i \in DOMAIN plan, plan[i].status = "failed"
    PROVE  Reworked([plan EXCEPT ![i].status = "pending"], plan)
<1>1. plan[i] \in Task
  BY PlanTasks
<1>2. QED BY <1>1 DEF Task, Reworked

LEMMA NewTasksAre ==
    ASSUME NEW kinds \in Seq(Kinds)
    PROVE  /\ DOMAIN NewTasks(kinds) = DOMAIN kinds
           /\ \A i \in DOMAIN kinds : /\ NewTasks(kinds)[i].kind = kinds[i]
                                      /\ NewTasks(kinds)[i].status = "pending"
BY DEF NewTasks, NewTask

LEMMA ValidatingSurvives ==
    ASSUME NEW kinds \in Seq(Kinds), Validates(kinds)
    PROVE  Survives(NewTasks(kinds))
BY NewTasksAre DEF Survives, Validates

LEMMA NormalizedSurvives ==
    ASSUME NEW kinds \in Seq(Kinds) PROVE Survives(NormalizePlan(kinds))
<1> DEFINE cut == Upto(kinds, MaxTasks)
           base == Upto(cut, MaxTasks - 1)
           padded == Append(base, "validate")
<1>1. MaxTasks \in Nat /\ MaxTasks - 1 \in Nat
  BY Constants
<1>2. cut \in Seq(Kinds)
  BY <1>1, UptoLength
<1> HIDE DEF cut
<1>3. base \in Seq(Kinds)
  BY <1>1, <1>2, UptoLength
<1> HIDE DEF base
<1>4. padded \in Seq(Kinds) /\ Validates(padded)
  <2>1. "validate" \in Kinds
    BY DEF Kinds
  <2>2. /\ padded \in Seq(Kinds) /\ Len(padded) = Len(base) + 1
        /\ padded[Len(base) + 1] = "validate" /\ Len(base) \in Nat
    BY <1>3, <2>1, AppendProperties, LenProperties
  <2>3. Len(base) + 1 \in DOMAIN padded
    <3>1. DOMAIN padded = 1..Len(padded)
      BY <2>2, LenProperties
    <3>2. QED BY <2>2, <3>1
  <2>4. QED BY <2>2, <2>3 DEF Validates
<1> HIDE DEF padded
<1>5. NormalizePlan(kinds) = NewTasks(IF Validates(cut) THEN cut ELSE padded)
  BY DEF NormalizePlan, cut, base, padded
<1>6. QED BY <1>2, <1>4, <1>5, ValidatingSurvives

\* A replan the host accepts appends to the ledger, supersedes only what it
\* drops, and leaves a validation to run.
LEMMA AddedValidates ==
    ASSUME NEW plan \in Plans, NEW dropped, NEW kinds \in Seq(Kinds), NEW asked,
           ReplanFits(plan, dropped, kinds, asked)
    PROVE  StillValidates(plan, dropped, Added(plan, dropped, kinds))
<1> DEFINE fresh == Upto(kinds, Room(plan))
<1>1. Room(plan) \in Nat
  BY PlanTasks, StoreAssumption DEF Room
<1>2. fresh \in Seq(Kinds) /\ Len(fresh) <= Room(plan) /\ Len(fresh) \in Nat
      /\ DOMAIN fresh = 1..Len(fresh)
  BY <1>1, UptoLength, LenProperties
<1> HIDE DEF fresh
<1>3. CASE StillValidates(plan, dropped, fresh)
  BY <1>3 DEF Added, fresh
<1>4. CASE ~ StillValidates(plan, dropped, fresh)
  <2>1. Room(plan) > 0
    <3>1. StillValidates(plan, dropped, <<>>) => StillValidates(plan, dropped, fresh)
      BY DEF StillValidates, Validates
    <3>2. QED BY <1>4, <3>1 DEF ReplanFits
  <2>2. CASE Len(fresh) >= Room(plan)
    <3>1. Added(plan, dropped, kinds) = [fresh EXCEPT ![Len(fresh)] = "validate"]
      BY <1>4, <2>2 DEF Added, fresh
    <3>2. Len(fresh) \in DOMAIN fresh
      BY <1>1, <1>2, <2>1, <2>2
    <3>3. QED BY <3>1, <3>2 DEF StillValidates, Validates
  <2>3. CASE Len(fresh) < Room(plan)
    <3>1. Added(plan, dropped, kinds) = Append(fresh, "validate")
      <4>1. ~ (Len(fresh) >= Room(plan))
        BY <1>1, <1>2, <2>3
      <4>2. QED BY <1>4, <4>1 DEF Added, fresh
    <3>2. "validate" \in Kinds
      BY DEF Kinds
    <3>3. /\ Len(Append(fresh, "validate")) = Len(fresh) + 1
          /\ Append(fresh, "validate")[Len(fresh) + 1] = "validate"
          /\ DOMAIN Append(fresh, "validate") = 1..(Len(fresh) + 1)
      BY <1>2, <3>2, AppendProperties, LenProperties
    <3>4. Len(fresh) + 1 \in DOMAIN Append(fresh, "validate")
      BY <1>2, <3>3
    <3>5. QED BY <3>1, <3>3, <3>4 DEF StillValidates, Validates
  <2>4. QED BY <1>1, <1>2, <2>2, <2>3
<1>5. QED BY <1>3, <1>4

LEMMA ReplannedExtends ==
    ASSUME NEW plan \in Plans, NEW dropped, NEW kinds \in Seq(Kinds), NEW asked,
           \A i \in dropped \cap DOMAIN plan :
                plan[i].status \notin {"passed", "superseded"},
           ReplanFits(plan, dropped, kinds, asked)
    PROVE  LET new == AppendReplan(plan, dropped, kinds)
           IN  Extends(new, plan) /\ Survives(new)
<1> DEFINE old == Superseded(plan, dropped)
           added == Added(plan, dropped, kinds)
           fresh == NewTasks(added)
           new == AppendReplan(plan, dropped, kinds)
<1>1. old \in Seq(Task) /\ Len(old) = Len(plan) /\ Len(plan) \in Nat
      /\ DOMAIN plan = 1..Len(plan)
  BY SupersededIsPlan, PlanTasks DEF Plans
<1>2. added \in Seq(Kinds) /\ StillValidates(plan, dropped, added)
  BY AddedLength, AddedValidates
<1> HIDE DEF added
<1>3. fresh \in Seq(Task) /\ Len(fresh) = Len(added) /\ Len(added) \in Nat
      /\ DOMAIN added = 1..Len(added)
  BY <1>2, NewTasksLength, LenProperties
<1>4. \A i \in DOMAIN plan :
        /\ i \in dropped => old[i] = [plan[i] EXCEPT !.status = "superseded"]
        /\ i \notin dropped => old[i] = plan[i]
        /\ old[i].kind = plan[i].kind
  <2>1. ASSUME NEW i \in DOMAIN plan
        PROVE  /\ i \in dropped => old[i] = [plan[i] EXCEPT !.status = "superseded"]
               /\ i \notin dropped => old[i] = plan[i]
               /\ [plan[i] EXCEPT !.status = "superseded"].kind = plan[i].kind
    BY PlanTasks DEF Superseded, Task
  <2>2. QED BY <2>1
<1>5. \A i \in DOMAIN added : fresh[i].kind = added[i] /\ fresh[i].status = "pending"
  BY <1>2, NewTasksAre
<1> HIDE DEF old, fresh
<1>6. /\ new = old \o fresh
      /\ Len(new) = Len(plan) + Len(added)
      /\ DOMAIN new = 1..(Len(plan) + Len(added))
      /\ \A i \in 1..Len(plan) : new[i] = old[i]
      /\ \A i \in 1..Len(added) : new[Len(plan) + i] = fresh[i]
  <2>1. new = old \o fresh
    BY DEF AppendReplan, old, added, fresh
  <2>2. /\ old \o fresh \in Seq(Task)
        /\ Len(old \o fresh) = Len(old) + Len(fresh)
    BY <1>1, <1>3, ConcatProperties
  <2> HIDE DEF new
  <2>3. DOMAIN new = 1..(Len(plan) + Len(added))
    BY <1>1, <1>3, <2>1, <2>2, LenProperties
  <2>4. \A i \in 1..Len(plan) : new[i] = old[i]
    BY <1>1, <1>3, <2>1
  <2>5. \A i \in 1..Len(added) : new[Len(plan) + i] = fresh[i]
    BY <1>1, <1>3, <2>1
  <2>6. QED BY <1>1, <1>3, <2>1, <2>2, <2>3, <2>4, <2>5
<1> HIDE DEF new
<1>7. Extends(new, plan)
  <2>1. ASSUME NEW i \in DOMAIN plan
        PROVE  /\ new[i].kind = plan[i].kind
               /\ plan[i].status \in {"passed", "superseded"} => new[i] = plan[i]
    <3>1. new[i] = old[i]
      BY <1>1, <1>6
    <3>2. plan[i].status \in {"passed", "superseded"} => i \notin dropped
      OBVIOUS
    <3>3. QED BY <1>4, <3>1, <3>2
  <2>2. Len(plan) <= Len(new)
    BY <1>1, <1>3, <1>6
  <2>3. QED BY <2>1, <2>2 DEF Extends
<1>8. Survives(new)
  <2>1. CASE Validates(added)
    <3>1. PICK i \in DOMAIN added : added[i] = "validate"
      BY <2>1 DEF Validates
    <3>2. Len(plan) + i \in DOMAIN new
      BY <1>1, <1>3, <1>6
    <3>3. QED BY <1>3, <1>5, <1>6, <3>1, <3>2 DEF Survives
  <2>2. CASE \E i \in DOMAIN plan \ dropped :
                plan[i].kind = "validate" /\ plan[i].status # "superseded"
    <3>1. PICK i \in DOMAIN plan \ dropped :
                plan[i].kind = "validate" /\ plan[i].status # "superseded"
      BY <2>2
    <3>2. i \in DOMAIN new /\ new[i] = plan[i]
      <4>1. i \in 1..Len(plan) /\ i \in DOMAIN new
        BY <1>1, <1>3, <1>6, <3>1
      <4>2. new[i] = old[i] /\ old[i] = plan[i]
        BY <1>4, <1>6, <3>1, <4>1
      <4>3. QED BY <4>1, <4>2
    <3>3. QED BY <3>1, <3>2 DEF Survives
  <2>3. QED BY <1>2, <2>1, <2>2 DEF StillValidates
<1>9. QED BY <1>7, <1>8 DEF new

-----------------------------------------------------------------------------
\* The rows one step leaves behind.

LedgerStep(new, old) == RowBounded(new) /\ Extends(new.plan, old.plan)

LedgerKept == \A r \in Runs : SameLedger(runs'[r], runs[r])

Ledgers(o) ==
    \A r \in Runs :
        \/ SameLedger(runs'[r], runs[r])
        \/ r = ctl[o].run /\ CanSave(r, o) /\ LedgerStep(runs'[r], runs[r])

\* The obligation of a step of controller o.
PlanStep(o) == Ledgers(o) /\ HeldLocal(o)'

LEMMA SameLedgerBounded ==
    ASSUME NEW new, NEW old, SameLedger(new, old), RowBounded(old)
    PROVE  RowBounded(new)
BY DEF SameLedger, RowBounded

LEMMA SameLedgerHeld ==
    ASSUME NEW c, NEW new, NEW old, SameLedger(new, old), Held(c, old)
    PROVE  Held(c, new)
BY DEF SameLedger, Held, TaskIs

LEMMA BoundedExtends ==
    ASSUME IInv, NEW r \in Runs, SameLedger(runs'[r], runs[r])
    PROVE  Extends(runs'[r].plan, runs[r].plan)
<1>1. runs[r].plan \in Plans /\ runs'[r].plan = runs[r].plan
  BY DEF IInv, RowsInv, SameLedger
<1>2. QED BY <1>1, SamePlanExtends

\* A row another step leaves saveable was saveable.
LEMMA SaveableBefore ==
    ASSUME IInv, NEW o \in Owners, Sound, Unaffected(o), NEW r \in Runs,
           CanSave(r, o)'
    PROVE  CanSave(r, o)
<1>1. OwnedBy(r, o) /\ ~ runs'[r].cancelReq
  BY DEF CanSave, Unaffected
<1>2. RowStep(r) /\ runs[r] \in Row /\ RowOwnership(runs[r])
  BY DEF Sound, IInv, RowsInv, TypeOK, OwnershipCoherent, RowOwnership, IsActive
<1>3. runs[r].cancelReq \in BOOLEAN
  BY <1>2 DEF Row
<1>4. ~ runs[r].cancelReq
  BY <1>1, <1>2, RowStepFreezes
<1>5. QED BY <1>1, <1>4 DEF CanSave

LEMMA PlanStepKeepsLedgerInv ==
    ASSUME IInv, LedgerInv, NEW o \in Owners, Preserved(o), PlanStep(o)
    PROVE  LedgerInv' /\ \A r \in Runs : Extends(runs'[r].plan, runs[r].plan)
<1>1. \A r \in Runs : RowBounded(runs'[r])
  BY SameLedgerBounded DEF LedgerInv, PlanStep, Ledgers, LedgerStep
<1>2. ASSUME NEW p \in Owners \ {o}, NEW r \in Runs,
             ctl'[p].run = r, CanSave(r, p)'
      PROVE  Held(ctl'[p], runs'[r])
  <2>1. ctl'[p] = ctl[p]
    BY DEF IInv, Preserved
  <2>2. CanSave(r, p)
    BY <1>2, SaveableBefore DEF Preserved
  <2>3. Held(ctl[p], runs[r])
    BY <1>2, <2>1, <2>2 DEF LedgerInv, HeldLocal
  <2>4. ~ CanSave(r, o)
    BY <2>2 DEF CanSave, OwnedBy
  <2>5. SameLedger(runs'[r], runs[r])
    BY <2>4 DEF PlanStep, Ledgers
  <2>6. QED BY <2>1, <2>3, <2>5, SameLedgerHeld
<1>3. \A p \in Owners : HeldLocal(p)'
  BY <1>2 DEF HeldLocal, PlanStep
<1>4. \A r \in Runs : Extends(runs'[r].plan, runs[r].plan)
  BY BoundedExtends DEF PlanStep, Ledgers, LedgerStep
<1>5. QED BY <1>1, <1>3, <1>4 DEF LedgerInv

LEMMA WorldKeepsLedgerInv ==
    ASSUME IInv, LedgerInv, Sound, \A p \in Owners : Unaffected(p),
           UNCHANGED ctl, LedgerKept
    PROVE  LedgerInv' /\ \A r \in Runs : Extends(runs'[r].plan, runs[r].plan)
<1>1. \A r \in Runs : RowBounded(runs'[r])
  BY SameLedgerBounded DEF LedgerInv, LedgerKept
<1>2. ASSUME NEW p \in Owners, NEW r \in Runs, ctl'[p].run = r, CanSave(r, p)'
      PROVE  Held(ctl'[p], runs'[r])
  <2>1. CanSave(r, p)
    BY <1>2, SaveableBefore
  <2>2. Held(ctl[p], runs[r])
    BY <1>2, <2>1 DEF LedgerInv, HeldLocal
  <2>3. QED BY <2>2, SameLedgerHeld DEF LedgerKept
<1>3. \A r \in Runs : Extends(runs'[r].plan, runs[r].plan)
  BY BoundedExtends DEF LedgerKept
<1>4. QED BY <1>1, <1>2, <1>3 DEF LedgerInv, HeldLocal

-----------------------------------------------------------------------------
\* Operations that leave the ledger columns alone.

LEMMA QuietKeepsLedger ==
    ASSUME RowsInv, \A r \in Runs : QuietRow(r) PROVE LedgerKept
BY QuietRowEffect DEF RowsInv, TypeOK, LedgerKept

LEMMA UnchangedKeepsLedger ==
    ASSUME UNCHANGED runs PROVE LedgerKept
BY DEF LedgerKept, SameLedger

LEMMA ReconcileKeepsLedger ==
    ASSUME RowsInv, Reconcile PROVE LedgerKept
<1>1. PICK D \in SUBSET Crashed : ReconcileStaleRuns(D)
  BY DEF Reconcile
<1>2. \A r \in Runs :
        runs'[r] = IF r \in Stale(D) THEN Interrupted(runs[r]) ELSE runs[r]
  BY <1>1 DEF ReconcileStaleRuns
<1>3. \A r \in Runs : QuietRow(r)
  BY <1>2 DEF QuietRow
<1>4. QED BY <1>3, QuietKeepsLedger

LEMMA TouchKeepsLedger ==
    ASSUME RowsInv, NEW q \in Runs,
           \/ CreateRun(q) \/ RequestPause(q) \/ RequestCancel(q)
           \/ LeaseExpires(q) \/ \E o \in Owners : Heartbeat(q, o)
    PROVE  LedgerKept
<1>1. TypeOK
  BY DEF RowsInv
<1>2. \A r \in Runs \ {q} : runs'[r] = runs[r]
  BY <1>1 DEF TypeOK, CreateRun, RequestPause, RequestCancel, LeaseExpires, Heartbeat
<1>3. QuietRow(q)
  BY <1>1 DEF TypeOK, CreateRun, RequestPause, RequestCancel, LeaseExpires,
              Heartbeat, QuietRow
<1>4. QED BY <1>2, <1>3, QuietKeepsLedger DEF QuietRow

LEMMA FinishKeepsLedger ==
    ASSUME IInv, NEW o \in Owners, ctl[o].pc \notin Gone,
           NEW s \in FinishStatuses, Finish(o, s)
    PROVE  LedgerKept
<1>1. PICK q \in Runs : q = ctl[o].run
  BY EngagedFacts
<1>2. RowsInv /\ TypeOK
  BY DEF IInv, RowsInv
<1>3. CASE FinishRun(q, o, s)
  <2>1. \A r \in Runs \ {q} : runs'[r] = runs[r]
    BY <1>2, <1>3 DEF TypeOK, FinishRun
  <2>2. runs'[q] = Finished(runs[q], s)
    BY <1>2, <1>3 DEF TypeOK, FinishRun
  <2>3. \A r \in Runs : QuietRow(r)
    BY <2>1, <2>2 DEF QuietRow
  <2>4. QED BY <1>2, <2>3, QuietKeepsLedger
<1>4. QED BY <1>1, <1>3, UnchangedKeepsLedger DEF Finish

LEMMA ClaimKeepsLedger ==
    ASSUME RowsInv, NEW q \in Runs, NEW o \in Owners, ClaimRun(q, o)
    PROVE  LedgerKept
<1>1. \A r \in Runs \ {q} : runs'[r] = runs[r]
  BY DEF RowsInv, TypeOK, ClaimRun
<1>2. runs'[q] = Claimed(runs[q], o) /\ runs[q] \in Row
  BY DEF RowsInv, TypeOK, ClaimRun
<1>3. QED BY <1>1, <1>2, ClaimedIsRow DEF LedgerKept, SameLedger

\* Controllers whose next save rests on nothing they have read.
HeldPCs == {"repair", "planning", "savePlan", "startTask", "work", "record",
            "failure", "failureDecide", "preCheckpoint", "checkpoint",
            "checkpointDecide", "checkpointStop"}

LEMMA FreeHolds ==
    ASSUME NEW o \in Owners, ctl'[o].pc \notin HeldPCs PROVE HeldLocal(o)'
BY DEF HeldLocal, Held, HeldPCs

LEMMA QuietPlanStep ==
    ASSUME NEW o \in Owners, LedgerKept, ctl'[o].pc \notin HeldPCs
    PROVE  PlanStep(o)
BY FreeHolds DEF PlanStep, Ledgers, LedgerKept

-----------------------------------------------------------------------------
\* Saves.

LEMMA SavedColumns ==
    ASSUME NEW row \in Row, NEW u \in Updates
    PROVE  /\ Saved(row, u).plan = Given(u.plan, row.plan)
           /\ Saved(row, u).cycles = row.cycles + u.cycles
           /\ Saved(row, u).failures = row.failures + u.failures
           /\ Saved(row, u).checkpoints = row.checkpoints + u.checkpoints
           /\ Saved(row, u).replans = row.replans + u.replans
           /\ Saved(row, u).cancelReq = row.cancelReq
BY DEF Saved, Row

\* What a save may write over a row: within the budgets, and a plan, if any,
\* that continues the stored one and still has its validation.
Allowed(u, row) ==
    /\ row.cycles + u.cycles <= MaxTotalCycles
    /\ u.failures <= u.cycles
    /\ row.checkpoints + u.checkpoints <= MaxCheckpoints
    /\ row.replans + u.replans <= MaxReplans
    /\ u.plan # Keep => Extends(u.plan, row.plan) /\ Survives(u.plan)

LEMMA SavedIsLedgerStep ==
    ASSUME NEW row \in Row, row.plan \in Plans, RowBounded(row),
           NEW u \in PlanUpdates, Allowed(u, row)
    PROVE  LedgerStep(Saved(row, u), row)
<1> DEFINE new == Saved(row, u)
<1>1. u \in Updates
  BY DEF PlanUpdates
<1>2. /\ new.plan = Given(u.plan, row.plan)
      /\ new.cycles = row.cycles + u.cycles
      /\ new.failures = row.failures + u.failures
      /\ new.checkpoints = row.checkpoints + u.checkpoints
      /\ new.replans = row.replans + u.replans
  BY <1>1, SavedColumns
<1> HIDE DEF new
<1>3. new.failures <= new.cycles
  <2>1. /\ row.failures \in Nat /\ row.cycles \in Nat
        /\ u.failures \in Nat /\ u.cycles \in Nat
    BY <1>1 DEF Row, Updates
  <2>2. QED BY <1>2, <2>1 DEF RowBounded, Allowed
<1>4. Extends(new.plan, row.plan) /\ (new.plan # <<>> => Survives(new.plan))
  BY <1>2, SamePlanExtends DEF Given, Allowed, RowBounded
<1>5. RowBounded(new)
  BY <1>2, <1>3, <1>4 DEF Allowed, RowBounded
<1>6. QED BY <1>4, <1>5 DEF LedgerStep, new

LEMMA SaveLedgers ==
    ASSUME IInv, LedgerInv, NEW o \in Owners, ctl[o].pc \notin Gone,
           NEW u \in PlanUpdates, Save(o, u),
           NEW q \in Runs, q = ctl[o].run,
           CanSave(q, o) => Allowed(u, runs[q])
    PROVE  /\ Ledgers(o)
           /\ CanSave(q, o)' =>
                /\ CanSave(q, o)
                /\ runs'[q].plan = Given(u.plan, runs[q].plan)
                /\ runs'[q].cycles = runs[q].cycles + u.cycles
                /\ runs'[q].checkpoints = runs[q].checkpoints + u.checkpoints
                /\ SnapAfterSave(o) = Snapshot(runs'[q])
<1>1. /\ runs \in [Runs -> Row] /\ runs[q] \in Row /\ runs[q].plan \in Plans
      /\ RowBounded(runs[q]) /\ u \in Updates
  BY DEF IInv, RowsInv, TypeOK, LedgerInv, PlanUpdates
<1>2. CASE CanSave(q, o) /\ SaveProgress(q, o, u)
  <2>1. /\ runs'[q] = Saved(runs[q], u)
        /\ \A r \in Runs \ {q} : runs'[r] = runs[r]
    BY <1>1, <1>2 DEF SaveProgress
  <2>2. LedgerStep(runs'[q], runs[q])
    BY <1>1, <1>2, <2>1, SavedIsLedgerStep
  <2>3. Ledgers(o)
    BY <1>2, <2>1, <2>2 DEF Ledgers, SameLedger
  <2>4. /\ runs'[q].plan = Given(u.plan, runs[q].plan)
        /\ runs'[q].cycles = runs[q].cycles + u.cycles
        /\ runs'[q].checkpoints = runs[q].checkpoints + u.checkpoints
    BY <1>1, <2>1, SavedColumns
  <2>5. SnapAfterSave(o) = Snapshot(runs'[q])
    BY <1>2 DEF SnapAfterSave
  <2>6. QED BY <1>2, <2>3, <2>4, <2>5
<1>3. CASE ~ CanSave(q, o) /\ UNCHANGED runs
  <2>1. Ledgers(o)
    BY <1>3 DEF Ledgers, SameLedger
  <2>2. ~ CanSave(q, o)'
    BY <1>3 DEF CanSave, OwnedBy, IsActive
  <2>3. QED BY <2>1, <2>2
<1>4. QED BY <1>2, <1>3 DEF Save, SaveProgress

\* What a controller that may save knows of the row.
LEMMA SaverKnows ==
    ASSUME IInv, LedgerInv, NEW o \in Owners, NEW q \in Runs,
           ctl[o].run = q, CanSave(q, o)
    PROVE  /\ ctl[o].snap = Snapshot(runs[q])
           /\ ctl[o].snap.plan = runs[q].plan
           /\ ctl[o].snap.replans = runs[q].replans
           /\ Held(ctl[o], runs[q]) /\ RowBounded(runs[q])
           /\ runs[q] \in Row /\ runs[q].plan \in Plans
<1>1. ctl[o].snap = Snapshot(runs[q])
  BY DEF IInv, LocalInv, CanSave
<1>2. QED
  BY <1>1 DEF Snapshot, LedgerInv, HeldLocal, IInv, RowsInv, TypeOK

\* An update that counts nothing.
LEMMA UncountedAllowed ==
    ASSUME NEW row \in Row, RowBounded(row), NEW u \in Updates,
           u.cycles = 0, u.failures = 0, u.checkpoints = 0, u.replans = 0,
           u.plan # Keep => Extends(u.plan, row.plan) /\ Survives(u.plan)
    PROVE  Allowed(u, row)
BY DEF Row, RowBounded, Allowed

-----------------------------------------------------------------------------
\* The steps of execute_run, once more: their plans and budgets.

LEMMA GotoPc ==
    ASSUME IInv, NEW o \in Owners, NEW pc, Goto(o, pc)
    PROVE  ctl'[o] = [ctl[o] EXCEPT !.pc = pc] /\ ctl'[o].pc = pc
BY DEF IInv, Goto, Locals

LEMMA GotoFinishPc ==
    ASSUME IInv, NEW o \in Owners, NEW pc, NEW s,
           ctl' = [ctl EXCEPT ![o].pc = pc, ![o].fin = s]
    PROVE  ctl'[o] = [ctl[o] EXCEPT !.pc = pc, !.fin = s] /\ ctl'[o].pc = pc
BY DEF IInv, Locals

LEMMA ReturnPc ==
    ASSUME IInv, NEW o \in Owners, Return(o) PROVE ctl'[o].pc = "idle"
BY IdleIsLocals DEF IInv, Return

LEMMA ClaimPlan ==
    ASSUME IInv, LedgerInv, NEW o \in Owners, Claim(o) PROVE PlanStep(o)
<1>1. ctl[o].pc = "claim" /\ ctl[o].pc \notin Gone
  BY DEF Claim, At, Gone
<1>2. PICK q \in Runs : q = ctl[o].run
  BY <1>1, EngagedFacts
<1>3. ctl[o] \in Locals /\ RowsInv /\ runs[q] \in Row
  BY <1>1, <1>2, EngagedFacts
<1>4. CASE Return(o) /\ UNCHANGED runs
  BY <1>4, ReturnPc, UnchangedKeepsLedger, QuietPlanStep DEF HeldPCs
<1> DEFINE plan == runs[q].plan
           snap == Snapshot(runs[q])
           c == [ctl[o] EXCEPT !.plan = plan, !.snap = snap]
           d == IF HasRunning(c.plan) THEN [c EXCEPT !.pc = "repair"]
                                      ELSE Resumed(c)
<1>5. CASE ClaimRun(q, o) /\ ctl' = [ctl EXCEPT ![o] = d]
  <2>1. plan \in Plans /\ snap \in Snaps
    BY <1>3, RowGivesSnap DEF RowsInv
  <2>2. LedgerKept
    BY <1>3, <1>5, ClaimKeepsLedger
  <2>3. runs'[q].plan = plan
    BY <2>2 DEF LedgerKept, SameLedger
  <2> HIDE DEF snap, plan
  <2>4. c \in Locals /\ c.plan = plan /\ c.run = q /\ c.fin # "completed"
    BY <1>2, <1>3, <2>1 DEF Locals, IInv, LocalInv
  <2> HIDE DEF c
  <2>5. ctl'[o] = d
    BY <1>5 DEF IInv
  <2>6. /\ d.run = q
        /\ \/ d.pc = "repair" /\ HasRunning(plan) /\ d.plan = plan
           \/ d.pc = "planning" /\ plan = <<>>
           \/ d.pc \in {"finish", "loop", "finalReconcile"}
    <3>1. CASE HasRunning(c.plan)
      BY <2>4, <3>1 DEF Locals
    <3>2. CASE ~ HasRunning(c.plan) /\ c.plan = <<>>
      BY <2>4, <3>2 DEF Resumed, Locals
    <3>3. CASE ~ HasRunning(c.plan) /\ c.plan # <<>>
      <4>1. Resumed(c).run = c.run
        BY <2>4, ResumedIsLocals
      <4>2. CASE c.planOnly
        BY <2>4, <3>3, <4>2 DEF Resumed, Locals
      <4>3. CASE ~ c.planOnly
        <5>1. Resumed(c) = NextIteration(c)
          BY <3>3, <4>3 DEF Resumed
        <5>2. QED BY <2>4, <3>3, <5>1, IterationIsLocals
      <4>4. QED BY <4>2, <4>3
    <3>4. QED BY <3>1, <3>2, <3>3
  <2> HIDE DEF d
  <2>7. Held(d, runs'[q])
    BY <2>3, <2>6 DEF Held
  <2>8. HeldLocal(o)'
    BY <2>5, <2>6, <2>7 DEF HeldLocal
  <2>9. QED BY <2>2, <2>8 DEF PlanStep, Ledgers, LedgerKept
<1>6. QED BY <1>2, <1>4, <1>5 DEF Claim

LEMMA ReadFlagsPlan ==
    ASSUME IInv, LedgerInv, NEW o \in Owners, ReadFlags(o) PROVE PlanStep(o)
<1> DEFINE pc == ctl[o].pc
<1>1. pc \in {"planning", "loop", "work", "preCheckpoint", "checkpoint",
              "failure", "completion", "final"}
  BY DEF ReadFlags, AfterFlags
<1>2. UNCHANGED runs /\ LedgerKept
  BY UnchangedKeepsLedger DEF ReadFlags
<1>3. ctl[o] \in Locals
  BY DEF IInv
<1>4. CASE Goto(o, "failReconcile")
  <2>1. ctl'[o].pc = "failReconcile"
    BY <1>4, GotoPc
  <2>2. QED BY <1>2, <2>1, QuietPlanStep DEF HeldPCs
<1>5. CASE \E s \in {"cancelled", "paused"} : GotoFinish(o, s)
  <2>1. PICK s \in {"cancelled", "paused"} :
                ctl' = [ctl EXCEPT ![o].pc = "finish", ![o].fin = s]
    BY <1>5 DEF GotoFinish
  <2>2. ctl'[o].pc = "finish"
    BY <2>1, GotoFinishPc
  <2>3. QED BY <1>2, <2>2, QuietPlanStep DEF HeldPCs
<1>6. ASSUME NEW d \in Locals, ctl'[o] = d, d.run = ctl[o].run,
             d.plan = ctl[o].plan, d.task = ctl[o].task,
             \A row : Held(ctl[o], row) => Held(d, row)
      PROVE  PlanStep(o)
  <2>1. \A r \in Runs : CanSave(r, o)' => CanSave(r, o)
    BY <1>2 DEF CanSave, OwnedBy, IsActive
  <2>2. HeldLocal(o)'
    BY <1>2, <1>6, <2>1 DEF LedgerInv, HeldLocal
  <2>3. QED BY <1>2, <2>2 DEF PlanStep, Ledgers, LedgerKept
<1>7. CASE /\ pc = "checkpoint"
           /\ ctl' = [ctl EXCEPT ![o].pc = "checkpointStop", ![o].fin = "paused"]
  <2> DEFINE d == [ctl[o] EXCEPT !.pc = "checkpointStop", !.fin = "paused"]
  <2>1. ctl'[o] = d
    BY <1>7, GotoFinishPc
  <2>2. "checkpointStop" \in PCs /\ "paused" \in FinishStatuses
    BY DEF PCs, InTry, FinishStatuses
  <2>3. d \in Locals /\ d.run = ctl[o].run /\ d.plan = ctl[o].plan
        /\ d.task = ctl[o].task /\ d.pc = "checkpointStop"
    BY <1>3, <2>2 DEF Locals
  <2> HIDE DEF d
  <2>4. \A row : Held(ctl[o], row) => Held(d, row)
    BY <1>7, <2>3 DEF Held
  <2>5. QED BY <1>6, <2>1, <2>3, <2>4
<1>8. CASE Goto(o, AfterFlags[pc])
  <2> DEFINE next == AfterFlags[pc]
             d == [ctl[o] EXCEPT !.pc = next]
  <2>1. \/ pc = "planning" /\ next = "savePlan"
        \/ pc = "loop" /\ next = "reconcile"
        \/ pc = "work" /\ next = "record"
        \/ pc = "preCheckpoint" /\ next = "checkpoint"
        \/ pc = "checkpoint" /\ next = "checkpointDecide"
        \/ pc = "failure" /\ next = "failureDecide"
        \/ pc = "completion" /\ next = "completionDecide"
        \/ pc = "final" /\ next = "finalDecide"
    BY <1>1 DEF AfterFlags
  <2>2. next \in PCs
    BY <2>1 DEF PCs, InTry
  <2>3. ctl'[o] = d
    BY <1>8, GotoPc
  <2> HIDE DEF next
  <2>4. d \in Locals /\ d.run = ctl[o].run /\ d.plan = ctl[o].plan
        /\ d.task = ctl[o].task /\ d.pc = next
    BY <1>3, <2>2 DEF Locals
  <2> HIDE DEF d
  <2>5. \A row : Held(ctl[o], row) => Held(d, row)
    <3>1. ASSUME NEW row, Held(ctl[o], row) PROVE Held(d, row)
      <4>1. CASE pc = "work" /\ next = "record"
        BY <2>4, <3>1, <4>1 DEF Held, TaskIs
      <4>2. CASE pc = "failure" /\ next = "failureDecide"
        BY <2>4, <3>1, <4>2 DEF Held, TaskIs
      <4>3. CASE pc \notin {"work", "failure"}
        BY <2>1, <2>4, <3>1, <4>3 DEF Held
      <4>4. QED BY <2>1, <4>1, <4>2, <4>3
    <3>2. QED BY <3>1
  <2>6. QED BY <1>6, <2>3, <2>4, <2>5
<1>9. QED BY <1>4, <1>5, <1>7, <1>8 DEF ReadFlags

LEMMA ReadRunPlan ==
    ASSUME IInv, LedgerInv, NEW o \in Owners, ReadRun(o) PROVE PlanStep(o)
<1>1. ctl[o].pc = "read" /\ ctl[o].pc \notin Gone /\ UNCHANGED runs
  BY DEF ReadRun, At, Gone
<1>2. PICK q \in Runs : q = ctl[o].run
  BY <1>1, EngagedFacts
<1>3. ctl[o] \in Locals /\ runs[q] \in Row
  BY <1>1, <1>2, EngagedFacts
<1>4. LedgerKept
  BY <1>1, UnchangedKeepsLedger
<1> DEFINE snap == Snapshot(runs[q])
           plan == runs[q].plan
           c == [ctl[o] EXCEPT !.snap = snap]
<1>5. \/ ctl' = [ctl EXCEPT ![o] = [c EXCEPT !.pc = "finish", !.fin = "blocked"]]
      \/ ctl' = [ctl EXCEPT ![o] = [c EXCEPT !.pc = "completion"]]
      \/ /\ runs[q].cycles < MaxTotalCycles
         /\ \E i \in Pending(plan) :
              ctl' = [ctl EXCEPT ![o] =
                         [c EXCEPT !.pc = "startTask", !.plan = plan, !.task = i]]
  BY <1>2 DEF ReadRun
<1> HIDE DEF snap
<1>6. ASSUME NEW i \in Pending(plan), runs[q].cycles < MaxTotalCycles,
             ctl' = [ctl EXCEPT ![o] =
                        [c EXCEPT !.pc = "startTask", !.plan = plan, !.task = i]]
      PROVE  PlanStep(o)
  <2>1. ctl'[o] = [c EXCEPT !.pc = "startTask", !.plan = plan, !.task = i]
    BY <1>6 DEF IInv
  <2>2. ctl'[o].pc = "startTask" /\ ctl'[o].plan = plan /\ ctl'[o].task = i
        /\ ctl'[o].run = q
    BY <1>2, <1>3, <2>1 DEF Locals
  <2>3. runs'[q] = runs[q] /\ i \in DOMAIN plan /\ plan[i].status = "pending"
    BY <1>1, <1>6 DEF Pending
  <2> HIDE DEF plan
  <2>4. runs'[q].plan = plan
    BY <2>3 DEF plan
  <2>5. TaskIs(ctl'[o], runs'[q], "pending")
    BY <2>2, <2>3, <2>4 DEF TaskIs
  <2>6. Held(ctl'[o], runs'[q])
    BY <1>6, <2>2, <2>3, <2>5 DEF Held
  <2>7. HeldLocal(o)'
    BY <2>2, <2>6 DEF HeldLocal
  <2>8. QED BY <1>4, <2>7 DEF PlanStep, Ledgers, LedgerKept
<1>7. CASE \/ ctl' = [ctl EXCEPT ![o] = [c EXCEPT !.pc = "finish", !.fin = "blocked"]]
           \/ ctl' = [ctl EXCEPT ![o] = [c EXCEPT !.pc = "completion"]]
  <2>1. ctl'[o].pc \in {"finish", "completion"}
    BY <1>3, <1>7 DEF IInv, Locals
  <2>2. QED BY <1>4, <2>1, QuietPlanStep DEF HeldPCs
<1>8. QED BY <1>5, <1>6, <1>7


\* A save after which the controller rests on nothing it has read.
LEMMA FreeSavePlan ==
    ASSUME IInv, LedgerInv, NEW o \in Owners, ctl[o].pc \notin Gone,
           NEW u \in PlanUpdates, Save(o, u),
           NEW q \in Runs, q = ctl[o].run,
           CanSave(q, o) => Allowed(u, runs[q]),
           ctl'[o].run = q,
           CanSave(q, o) => ctl'[o].pc \notin HeldPCs
    PROVE  PlanStep(o)
<1>1. Ledgers(o) /\ (CanSave(q, o)' => CanSave(q, o))
  BY SaveLedgers
<1>2. CASE CanSave(q, o)
  BY <1>1, <1>2, FreeHolds DEF PlanStep
<1>3. CASE ~ CanSave(q, o)
  BY <1>1, <1>3 DEF PlanStep, HeldLocal
<1>4. QED BY <1>2, <1>3

\* The locals of Resumed, when the plan is not empty.
LEMMA ResumedIsFree ==
    ASSUME NEW c \in Locals, c.plan # <<>> PROVE Resumed(c).pc \notin HeldPCs
<1>1. CASE c.planOnly
  BY <1>1 DEF Resumed, Locals, HeldPCs
<1>2. CASE ~ c.planOnly
  BY <1>2, IterationIsLocals DEF Resumed, HeldPCs
<1>3. QED BY <1>1, <1>2

LEMMA ResumeAfterSavePlan ==
    ASSUME IInv, LedgerInv, NEW o \in Owners, ctl[o].pc \notin Gone,
           NEW plan \in Plans,
           NEW u \in PlanUpdates, Save(o, u),
           NEW q \in Runs, q = ctl[o].run,
           CanSave(q, o) => plan # <<>> /\ Allowed(u, runs[q]),
           ctl' = [ctl EXCEPT ![o] =
                      Resumed([ctl[o] EXCEPT !.plan = plan,
                                             !.snap = SnapAfterSave(o)])]
    PROVE  PlanStep(o)
<1> DEFINE c == [ctl[o] EXCEPT !.plan = plan, !.snap = SnapAfterSave(o)]
<1>1. ctl[o] \in Locals /\ ctl[o].fin # "completed" /\ SnapAfterSave(o) \in Snaps
  BY EngagedFacts, SnapAfterSaveIsSnap DEF LocalInv
<1>2. c \in Locals /\ c.plan = plan /\ c.run = q /\ c.fin # "completed"
  BY <1>1 DEF Locals
<1>3. ctl'[o] = Resumed(c)
  BY DEF IInv
<1> HIDE DEF c
<1>4. ctl'[o].run = q
  BY <1>2, <1>3, ResumedIsLocals
<1>5. CanSave(q, o) => ctl'[o].pc \notin HeldPCs
  BY <1>2, <1>3, ResumedIsFree
<1>6. QED BY <1>4, <1>5, FreeSavePlan

LEMMA NonEmptyPlan ==
    ASSUME NEW plan, Survives(plan) PROVE plan # <<>>
BY DEF Survives

\* The updates the controllers save.
LEMMA NullColumns ==
    /\ NullUpdate \in Updates
    /\ NullUpdate.cycles = 0 /\ NullUpdate.failures = 0
    /\ NullUpdate.checkpoints = 0 /\ NullUpdate.replans = 0
BY NullIsUpdate DEF NullUpdate

LEMMA RepairUpdate ==
    ASSUME NEW plan \in Plans
    PROVE  LET u == [NullUpdate EXCEPT !.plan = plan, !.status = "running"]
           IN  /\ u \in PlanUpdates /\ u \in Updates /\ u.plan = plan
               /\ u.cycles = 0 /\ u.failures = 0
               /\ u.checkpoints = 0 /\ u.replans = 0
<1>1. plan \in Seq(Task) /\ 0 \in 0..MaxTasks
  BY PlanIsColumn, Constants
<1>2. QED BY <1>1, NullColumns DEF Updates, PlanUpdates

LEMMA PlanUpdate ==
    ASSUME NEW plan \in Plans
    PROVE  LET u == [NullUpdate EXCEPT !.plan = plan, !.criteria = TRUE,
                                          !.status = "running"]
           IN  /\ u \in PlanUpdates /\ u \in Updates /\ u.plan = plan
               /\ u.cycles = 0 /\ u.failures = 0
               /\ u.checkpoints = 0 /\ u.replans = 0
<1>1. plan \in Seq(Task) /\ 0 \in 0..MaxTasks
  BY PlanIsColumn, Constants
<1>2. QED BY <1>1, NullColumns DEF Updates, PlanUpdates

LEMMA RetryUpdate ==
    ASSUME NEW plan \in Plans
    PROVE  LET u == [NullUpdate EXCEPT !.plan = plan]
           IN  /\ u \in PlanUpdates /\ u \in Updates /\ u.plan = plan
               /\ u.cycles = 0 /\ u.failures = 0
               /\ u.checkpoints = 0 /\ u.replans = 0
<1>1. plan \in Seq(Task) /\ 0 \in 0..MaxTasks
  BY PlanIsColumn, Constants
<1>2. QED BY <1>1, NullColumns DEF Updates, PlanUpdates

LEMMA StartUpdate ==
    ASSUME NEW plan \in Plans, NEW i \in 0..MaxTasks
    PROVE  LET u == [NullUpdate EXCEPT !.plan = plan, !.status = "running",
                                          !.current = i]
           IN  /\ u \in PlanUpdates /\ u \in Updates /\ u.plan = plan
               /\ u.cycles = 0 /\ u.failures = 0
               /\ u.checkpoints = 0 /\ u.replans = 0
<1>1. plan \in Seq(Task) /\ 0 \in 0..MaxTasks
  BY PlanIsColumn, Constants
<1>2. QED BY <1>1, NullColumns DEF Updates, PlanUpdates

LEMMA RecordUpdate ==
    ASSUME NEW plan \in Plans, NEW n \in {0, 1}
    PROVE  LET u == [NullUpdate EXCEPT !.plan = plan, !.current = 0,
                                          !.cycles = 1, !.failures = n]
           IN  /\ u \in PlanUpdates /\ u \in Updates /\ u.plan = plan
               /\ u.cycles = 1 /\ u.failures = n
               /\ u.checkpoints = 0 /\ u.replans = 0
<1>1. plan \in Seq(Task) /\ 0 \in 0..MaxTasks
  BY PlanIsColumn, Constants
<1>2. QED BY <1>1, NullColumns DEF Updates, PlanUpdates

LEMMA ReplanUpdate ==
    ASSUME NEW plan \in Plans, NEW n \in {0, 1}
    PROVE  LET u == [NullUpdate EXCEPT !.plan = plan, !.replans = 1,
                                          !.checkpoints = n]
           IN  /\ u \in PlanUpdates /\ u \in Updates /\ u.plan = plan
               /\ u.cycles = 0 /\ u.failures = 0
               /\ u.checkpoints = n /\ u.replans = 1
<1>1. plan \in Seq(Task) /\ 0 \in 0..MaxTasks
  BY PlanIsColumn, Constants
<1>2. QED BY <1>1, NullColumns DEF Updates, PlanUpdates

LEMMA RepairPlan ==
    ASSUME IInv, LedgerInv, NEW o \in Owners, Repair(o) PROVE PlanStep(o)
<1> DEFINE plan == Repaired(ctl[o].plan)
           u == [NullUpdate EXCEPT !.plan = plan, !.status = "running"]
<1>1. ctl[o].pc = "repair" /\ ctl[o].pc \notin Gone
  BY DEF Repair, At, Gone
<1>2. PICK q \in Runs : q = ctl[o].run
  BY <1>1, EngagedFacts
<1>3. plan \in Plans /\ ctl[o] \in Locals
  BY <1>1, EngagedFacts, RepairedIsPlan DEF Locals
<1>4. CanSave(q, o) => Extends(plan, runs[q].plan) /\ Survives(plan)
  <2> SUFFICES ASSUME CanSave(q, o)
               PROVE  Extends(plan, runs[q].plan) /\ Survives(plan)
    OBVIOUS
  <2>1. /\ ctl[o].plan = runs[q].plan /\ HasRunning(runs[q].plan)
        /\ RowBounded(runs[q]) /\ runs[q].plan \in Plans
    BY <1>1, <1>2, SaverKnows DEF Held
  <2>2. Survives(runs[q].plan)
    <3>1. runs[q].plan # <<>>
      BY <2>1 DEF HasRunning
    <3>2. QED BY <2>1, <3>1 DEF RowBounded
  <2>3. Reworked(plan, runs[q].plan)
    BY <2>1, RepairedReworks
  <2>4. QED BY <1>3, <2>1, <2>2, <2>3, ReworkedExtends
<1>5. /\ Save(o, u)
      /\ ctl' = [ctl EXCEPT ![o] =
                    Resumed([ctl[o] EXCEPT !.plan = plan,
                                           !.snap = SnapAfterSave(o)])]
  BY DEF Repair
<1> HIDE DEF plan
<1>6. /\ u \in PlanUpdates /\ u \in Updates /\ u.plan = plan
      /\ u.cycles = 0 /\ u.failures = 0 /\ u.checkpoints = 0 /\ u.replans = 0
  BY <1>3, RepairUpdate
<1> HIDE DEF u
<1>7. CanSave(q, o) => plan # <<>> /\ Allowed(u, runs[q])
  BY <1>2, <1>4, <1>6, SaverKnows, UncountedAllowed, NonEmptyPlan
<1>8. QED BY <1>1, <1>2, <1>3, <1>5, <1>6, <1>7, ResumeAfterSavePlan

LEMMA SavePlanPlan ==
    ASSUME IInv, LedgerInv, NEW o \in Owners, SavePlan(o) PROVE PlanStep(o)
<1>1. ctl[o].pc = "savePlan" /\ ctl[o].pc \notin Gone
  BY DEF SavePlan, At, Gone
<1>2. PICK q \in Runs : q = ctl[o].run
  BY <1>1, EngagedFacts
<1>3. PICK kinds \in PlannerTasks :
        LET plan == NormalizePlan(kinds)
        IN  /\ Save(o, [NullUpdate EXCEPT !.plan = plan, !.criteria = TRUE,
                                          !.status = "running"])
            /\ ctl' = [ctl EXCEPT ![o] =
                          Resumed([@ EXCEPT !.plan = plan,
                                            !.snap = SnapAfterSave(o)])]
  BY DEF SavePlan
<1> DEFINE plan == NormalizePlan(kinds)
           u == [NullUpdate EXCEPT !.plan = plan, !.criteria = TRUE,
                                   !.status = "running"]
<1>4. kinds \in Seq(Kinds)
  BY ControllerAssumption DEF ControllerAssumption
<1>5. plan \in Plans /\ Survives(plan)
  BY <1>4, ControllerAssumption, NormalizedIsPlan, NormalizedSurvives
<1> HIDE DEF plan
<1>6. /\ Save(o, u)
      /\ ctl' = [ctl EXCEPT ![o] =
                    Resumed([ctl[o] EXCEPT !.plan = plan,
                                           !.snap = SnapAfterSave(o)])]
  BY <1>3 DEF plan
<1>7. /\ u \in PlanUpdates /\ u \in Updates /\ u.plan = plan
      /\ u.cycles = 0 /\ u.failures = 0 /\ u.checkpoints = 0 /\ u.replans = 0
  BY <1>5, PlanUpdate
<1> HIDE DEF u
<1>8. CanSave(q, o) => plan # <<>> /\ Allowed(u, runs[q])
  <2> SUFFICES ASSUME CanSave(q, o) PROVE plan # <<>> /\ Allowed(u, runs[q])
    OBVIOUS
  <2>1. runs[q].plan = <<>> /\ runs[q] \in Row /\ RowBounded(runs[q])
    BY <1>1, <1>2, SaverKnows DEF Held
  <2>2. Extends(plan, runs[q].plan)
    <3>1. Len(<<>>) = 0 /\ DOMAIN <<>> = {} /\ Len(plan) \in Nat
      BY <1>5, PlanTasks, EmptySeq
    <3>2. QED BY <2>1, <3>1 DEF Extends
  <2>3. QED BY <1>5, <1>7, <2>1, <2>2, UncountedAllowed, NonEmptyPlan
<1>9. QED BY <1>1, <1>2, <1>5, <1>6, <1>7, <1>8, ResumeAfterSavePlan

LEMMA StartTaskPlan ==
    ASSUME IInv, LedgerInv, NEW o \in Owners, StartTask(o) PROVE PlanStep(o)
<1> DEFINE i == ctl[o].task
           plan == Started(ctl[o].plan, i)
           u == [NullUpdate EXCEPT !.plan = plan, !.status = "running",
                                   !.current = i]
           c == [ctl[o] EXCEPT !.pc = "work", !.plan = plan,
                               !.snap = SnapAfterSave(o)]
<1>1. ctl[o].pc = "startTask" /\ ctl[o].pc \notin Gone
  BY DEF StartTask, At, Gone
<1>2. PICK q \in Runs : q = ctl[o].run
  BY <1>1, EngagedFacts
<1>3. plan \in Plans /\ ctl[o] \in Locals /\ i \in 0..MaxTasks
  BY <1>1, EngagedFacts, StartedIsPlan DEF Locals
<1>4. Save(o, u) /\ ctl' = [ctl EXCEPT ![o] = c]
  BY DEF StartTask, IInv
<1>5. CanSave(q, o) =>
        /\ Reworked(plan, runs[q].plan) /\ Survives(runs[q].plan)
        /\ i \in DOMAIN plan /\ plan[i].status = "running"
        /\ runs[q].cycles < MaxTotalCycles
  <2> SUFFICES ASSUME CanSave(q, o)
               PROVE  /\ Reworked(plan, runs[q].plan) /\ Survives(runs[q].plan)
                      /\ i \in DOMAIN plan /\ plan[i].status = "running"
                      /\ runs[q].cycles < MaxTotalCycles
    OBVIOUS
  <2>1. /\ TaskIs(ctl[o], runs[q], "pending") /\ runs[q].cycles < MaxTotalCycles
        /\ RowBounded(runs[q]) /\ runs[q].plan \in Plans
    BY <1>1, <1>2, SaverKnows DEF Held
  <2>2. runs[q].plan # <<>>
    BY <2>1 DEF TaskIs
  <2>3. QED BY <2>1, <2>2, StartedReworks DEF TaskIs, RowBounded
<1> HIDE DEF plan
<1>6. /\ u \in PlanUpdates /\ u \in Updates /\ u.plan = plan
      /\ u.cycles = 0 /\ u.failures = 0 /\ u.checkpoints = 0 /\ u.replans = 0
  BY <1>3, StartUpdate
<1> HIDE DEF u
<1>7. CanSave(q, o) => Allowed(u, runs[q])
  <2>1. ASSUME CanSave(q, o) PROVE Allowed(u, runs[q])
    <3>1. runs[q] \in Row /\ RowBounded(runs[q]) /\ runs[q].plan \in Plans
      BY <1>2, <2>1, SaverKnows
    <3>2. Extends(plan, runs[q].plan) /\ Survives(plan)
      BY <1>3, <1>5, <2>1, <3>1, ReworkedExtends
    <3>3. QED BY <1>6, <3>1, <3>2, UncountedAllowed
  <2>2. QED BY <2>1
<1>8. SnapAfterSave(o) \in Snaps
  BY <1>1, <1>4, <1>6, SnapAfterSaveIsSnap
<1>9. ctl'[o].pc = "work" /\ ctl'[o].plan = plan /\ ctl'[o].task = i /\ ctl'[o].run = q
  BY <1>2, <1>3, <1>4, <1>8 DEF Locals, IInv
<1>10. Ledgers(o)
  BY <1>1, <1>2, <1>4, <1>6, <1>7, SaveLedgers
<1>11. ASSUME CanSave(q, o)' PROVE Held(ctl'[o], runs'[q])
  <2>1. /\ CanSave(q, o) /\ runs'[q].plan = Given(u.plan, runs[q].plan)
        /\ runs'[q].cycles = runs[q].cycles + u.cycles
    BY <1>1, <1>2, <1>4, <1>6, <1>7, <1>11, SaveLedgers
  <2>2. runs'[q].plan = plan
    BY <1>3, <1>6, <2>1, StoreAssumption, PlanIsColumn DEF Given
  <2>3. runs'[q].cycles = runs[q].cycles
    BY <1>6, <2>1 DEF IInv, RowsInv, TypeOK, Row
  <2>4. TaskIs(ctl'[o], runs'[q], "running") /\ runs'[q].cycles < MaxTotalCycles
    BY <1>5, <1>9, <2>1, <2>2, <2>3 DEF TaskIs
  <2>5. QED BY <1>9, <2>4 DEF Held
<1>12. HeldLocal(o)'
  BY <1>9, <1>11 DEF HeldLocal
<1>13. QED BY <1>10, <1>12 DEF PlanStep


LEMMA RecordResultPlan ==
    ASSUME IInv, LedgerInv, NEW o \in Owners, RecordResult(o) PROVE PlanStep(o)
<1> DEFINE i == ctl[o].task
           kind == ctl[o].plan[i].kind
           planOf(work) == Recorded(ctl[o].plan, i, work)
           cOf(work) == [ctl[o] EXCEPT !.plan = planOf(work),
                                       !.snap = SnapAfterSave(o),
                                       !.invoked = @ + 1]
           uOf(work) == [NullUpdate EXCEPT
                            !.plan = planOf(work), !.current = 0, !.cycles = 1,
                            !.failures = IF TaskPassed(work, kind) THEN 0 ELSE 1]
<1>1. ctl[o].pc = "record" /\ ctl[o].pc \notin Gone
  BY DEF RecordResult, At, Gone
<1>2. PICK q \in Runs : q = ctl[o].run
  BY <1>1, EngagedFacts
<1>3. ctl[o] \in Locals /\ LocalInv(o)
  BY <1>1, EngagedFacts
<1>4. PICK work \in WorkResults :
        /\ Save(o, uOf(work))
        /\ ctl' = [ctl EXCEPT ![o] =
              IF TaskPassed(work, kind) /\ ShouldCheckpoint(kind, cOf(work).snap)
                THEN [cOf(work) EXCEPT !.pc = "preCheckpoint"]
              ELSE IF TaskPassed(work, kind) THEN NextIteration(cOf(work))
              ELSE IF cOf(work).snap.failures >= MaxFailures
                THEN [cOf(work) EXCEPT !.pc = "finish", !.fin = "blocked"]
              ELSE [cOf(work) EXCEPT !.pc = "failure"]]
  <2> HIDE DEF cOf, uOf, planOf, kind, i
  <2>1. QED BY DEF RecordResult, cOf, uOf, planOf, kind, i
<1> DEFINE plan == planOf(work)
           passed == TaskPassed(work, kind)
           n == IF passed THEN 0 ELSE 1
           u == uOf(work)
           c == cOf(work)
<1>5. plan \in Plans
  BY <1>3, RecordedIsPlan DEF Locals
<1>6. /\ n \in {0, 1}
      /\ u = [NullUpdate EXCEPT !.plan = plan, !.current = 0,
                                !.cycles = 1, !.failures = n]
      /\ c = [ctl[o] EXCEPT !.plan = plan, !.snap = SnapAfterSave(o),
                            !.invoked = @ + 1]
      /\ Save(o, u)
  BY <1>4
<1>7. CanSave(q, o) =>
        /\ Reworked(plan, runs[q].plan) /\ Survives(runs[q].plan)
        /\ i \in DOMAIN plan
        /\ ~ passed => plan[i].status = "failed"
        /\ runs[q].cycles < MaxTotalCycles
  <2> SUFFICES ASSUME CanSave(q, o)
               PROVE  /\ Reworked(plan, runs[q].plan) /\ Survives(runs[q].plan)
                      /\ i \in DOMAIN plan
                      /\ ~ passed => plan[i].status = "failed"
                      /\ runs[q].cycles < MaxTotalCycles
    OBVIOUS
  <2>1. /\ TaskIs(ctl[o], runs[q], "running") /\ runs[q].cycles < MaxTotalCycles
        /\ RowBounded(runs[q]) /\ runs[q].plan \in Plans
    BY <1>1, <1>2, SaverKnows DEF Held
  <2>2. runs[q].plan # <<>>
    BY <2>1 DEF TaskIs
  <2>3. QED BY <2>1, <2>2, RecordedReworks DEF TaskIs, RowBounded
<1>8. ctl' = [ctl EXCEPT ![o] =
              IF passed /\ ShouldCheckpoint(kind, c.snap)
                THEN [c EXCEPT !.pc = "preCheckpoint"]
              ELSE IF passed THEN NextIteration(c)
              ELSE IF c.snap.failures >= MaxFailures
                THEN [c EXCEPT !.pc = "finish", !.fin = "blocked"]
              ELSE [c EXCEPT !.pc = "failure"]]
  BY <1>4
<1> HIDE DEF plan, n, u, c, passed, kind
<1>9. /\ u \in PlanUpdates /\ u \in Updates /\ u.plan = plan
      /\ u.cycles = 1 /\ u.failures = n /\ u.checkpoints = 0 /\ u.replans = 0
  BY <1>5, <1>6, RecordUpdate
<1>10. CanSave(q, o) => Allowed(u, runs[q])
  <2>1. ASSUME CanSave(q, o) PROVE Allowed(u, runs[q])
    <3>1. runs[q] \in Row /\ RowBounded(runs[q]) /\ runs[q].plan \in Plans
      BY <1>2, <2>1, SaverKnows
    <3>2. Extends(plan, runs[q].plan) /\ Survives(plan)
      BY <1>5, <1>7, <2>1, <3>1, ReworkedExtends
    <3>3. /\ runs[q].cycles + u.cycles <= MaxTotalCycles
          /\ u.failures <= u.cycles
      BY <1>6, <1>7, <1>9, <2>1, <3>1, ControllerAssumption
      DEF Row, ControllerAssumption
    <3>4. /\ runs[q].checkpoints + u.checkpoints <= MaxCheckpoints
          /\ runs[q].replans + u.replans <= MaxReplans
      BY <1>9, <3>1 DEF Row, RowBounded
    <3>5. QED BY <1>9, <3>2, <3>3, <3>4 DEF Allowed
  <2>2. QED BY <2>1
<1>11. SnapAfterSave(o) \in Snaps
  BY <1>1, <1>6, <1>9, SnapAfterSaveIsSnap
<1>12. c \in Locals /\ c.run = q /\ c.snap = SnapAfterSave(o) /\ c.plan = plan
       /\ c.task = i
  <2>1. ctl[o].invoked + 1 \in 0..MaxCycles
    BY <1>1, <1>3, Constants DEF LocalInv, InCycle, Locals
  <2>2. QED BY <1>2, <1>3, <1>5, <1>6, <1>11, <2>1 DEF Locals
<1>13. /\ ctl'[o].run = q
       /\ \/ /\ ctl'[o].pc = "preCheckpoint"
             /\ SnapAfterSave(o).checkpoints < MaxCheckpoints
          \/ /\ ctl'[o].pc = "failure" /\ ~ passed
             /\ ctl'[o].plan = plan /\ ctl'[o].task = i
          \/ ctl'[o].pc \in {"loop", "finalReconcile", "finish"}
  <2>1. CASE passed /\ ShouldCheckpoint(kind, c.snap)
    <3>1. ctl'[o] = [c EXCEPT !.pc = "preCheckpoint"]
      BY <1>8, <2>1 DEF IInv
    <3>2. QED BY <1>12, <2>1, <3>1 DEF Locals, ShouldCheckpoint
  <2>2. CASE passed /\ ~ ShouldCheckpoint(kind, c.snap)
    <3>1. ctl'[o] = NextIteration(c)
      BY <1>8, <2>2 DEF IInv
    <3>2. QED BY <1>12, <3>1, IterationIsLocals
  <2>3. CASE ~ passed /\ c.snap.failures >= MaxFailures
    <3>1. ctl'[o] = [c EXCEPT !.pc = "finish", !.fin = "blocked"]
      BY <1>8, <2>3 DEF IInv
    <3>2. QED BY <1>12, <3>1 DEF Locals
  <2>4. CASE ~ passed /\ ~ (c.snap.failures >= MaxFailures)
    <3>1. ctl'[o] = [c EXCEPT !.pc = "failure"]
      BY <1>8, <2>4 DEF IInv
    <3>2. QED BY <1>12, <2>4, <3>1 DEF Locals
  <2>5. QED BY <2>1, <2>2, <2>3, <2>4
<1>14. Ledgers(o)
  BY <1>1, <1>2, <1>6, <1>9, <1>10, SaveLedgers
<1>15. ASSUME CanSave(q, o)' PROVE Held(ctl'[o], runs'[q])
  <2>1. /\ CanSave(q, o) /\ runs'[q].plan = Given(u.plan, runs[q].plan)
        /\ SnapAfterSave(o) = Snapshot(runs'[q])
    BY <1>1, <1>2, <1>6, <1>9, <1>10, <1>15, SaveLedgers
  <2>2. runs'[q].plan = plan
    BY <1>5, <1>9, <2>1, StoreAssumption, PlanIsColumn DEF Given
  <2>3. CASE /\ ctl'[o].pc = "preCheckpoint"
             /\ SnapAfterSave(o).checkpoints < MaxCheckpoints
    <3>1. runs'[q].checkpoints < MaxCheckpoints
      BY <2>1, <2>3 DEF Snapshot
    <3>2. QED BY <2>3, <3>1 DEF Held
  <2>4. CASE /\ ctl'[o].pc = "failure" /\ ~ passed
             /\ ctl'[o].plan = plan /\ ctl'[o].task = i
    <3>1. TaskIs(ctl'[o], runs'[q], "failed")
      BY <1>7, <2>1, <2>2, <2>4 DEF TaskIs
    <3>2. QED BY <2>4, <3>1 DEF Held
  <2>5. CASE ctl'[o].pc \in {"loop", "finalReconcile", "finish"}
    BY <2>5 DEF Held
  <2>6. QED BY <1>13, <2>3, <2>4, <2>5
<1>16. HeldLocal(o)'
  BY <1>13, <1>15 DEF HeldLocal
<1>17. QED BY <1>14, <1>16 DEF PlanStep

LEMMA SaveAndIteratePlan ==
    ASSUME IInv, LedgerInv, NEW o \in Owners, ctl[o].pc \notin Gone,
           NEW u \in PlanUpdates, SaveAndIterate(o, u),
           NEW q \in Runs, q = ctl[o].run,
           CanSave(q, o) => Allowed(u, runs[q])
    PROVE  PlanStep(o)
<1> DEFINE c == [ctl[o] EXCEPT !.snap = SnapAfterSave(o)]
<1>1. ctl[o] \in Locals /\ SnapAfterSave(o) \in Snaps /\ Save(o, u)
  BY EngagedFacts, SnapAfterSaveIsSnap DEF SaveAndIterate
<1>2. c \in Locals /\ c.run = q
  BY <1>1 DEF Locals
<1>3. ctl'[o] = NextIteration(c)
  BY DEF SaveAndIterate, NextIteration, IInv
<1> HIDE DEF c
<1>4. ctl'[o].run = q /\ ctl'[o].pc \notin HeldPCs
  BY <1>2, <1>3, IterationIsLocals DEF HeldPCs
<1>5. QED BY <1>1, <1>4, FreeSavePlan

LEMMA SaveReplanPlan ==
    ASSUME IInv, LedgerInv, NEW o \in Owners, ctl[o].pc \notin Gone,
           NEW q \in Runs, q = ctl[o].run,
           NEW dropped, NEW checkpoints \in {0, 1},
           SaveReplan(o, dropped, checkpoints),
           CanSave(q, o) => runs[q].checkpoints + checkpoints <= MaxCheckpoints,
           CanSave(q, o) => \A i \in dropped \cap DOMAIN runs[q].plan :
                runs[q].plan[i].status \notin {"passed", "superseded"}
    PROVE  PlanStep(o)
<1>1. PICK kinds \in ReplanTasks \cup {<<>>}, asked \in BOOLEAN :
        /\ ReplanFits(ctl[o].snap.plan, dropped, kinds, asked)
        /\ SaveAndIterate(o, [NullUpdate EXCEPT
            !.plan = AppendReplan(ctl[o].snap.plan, dropped, kinds),
            !.replans = 1, !.checkpoints = checkpoints])
  BY DEF SaveReplan
<1> DEFINE plan == AppendReplan(ctl[o].snap.plan, dropped, kinds)
           u == [NullUpdate EXCEPT !.plan = plan, !.replans = 1,
                                   !.checkpoints = checkpoints]
<1>2. kinds \in Seq(Kinds)
  BY ControllerAssumption, EmptySeq DEF ControllerAssumption
<1>3. plan \in Plans
  BY <1>2, EngagedFacts, ReplannedIsPlan DEF Locals, Snaps
<1>4. ctl[o].snap.replans < MaxReplans /\ SaveAndIterate(o, u)
  BY <1>1 DEF SaveReplan
<1>5. CanSave(q, o) => Extends(plan, runs[q].plan) /\ Survives(plan)
  <2>1. ASSUME CanSave(q, o) PROVE Extends(plan, runs[q].plan) /\ Survives(plan)
    <3>1. ctl[o].snap.plan = runs[q].plan /\ runs[q].plan \in Plans
      BY <2>1, SaverKnows
    <3>2. QED BY <1>1, <1>2, <2>1, <3>1, ReplannedExtends
  <2>2. QED BY <2>1
<1> HIDE DEF plan
<1>6. /\ u \in PlanUpdates /\ u \in Updates /\ u.plan = plan
      /\ u.cycles = 0 /\ u.failures = 0
      /\ u.checkpoints = checkpoints /\ u.replans = 1
  BY <1>3, ReplanUpdate
<1> HIDE DEF u
<1>7. CanSave(q, o) => Allowed(u, runs[q])
  <2>1. ASSUME CanSave(q, o) PROVE Allowed(u, runs[q])
    <3>1. /\ runs[q] \in Row /\ RowBounded(runs[q])
          /\ ctl[o].snap.replans = runs[q].replans
      BY <2>1, SaverKnows
    <3>2. runs[q].replans + u.replans <= MaxReplans
      BY <1>4, <1>6, <3>1, ControllerAssumption DEF Row, ControllerAssumption
    <3>3. runs[q].cycles + u.cycles <= MaxTotalCycles /\ u.failures <= u.cycles
      BY <1>6, <3>1 DEF Row, RowBounded
    <3>4. QED BY <1>5, <1>6, <2>1, <3>2, <3>3 DEF Allowed
  <2>2. QED BY <2>1
<1>8. QED BY <1>4, <1>6, <1>7, SaveAndIteratePlan

\* An update of the checkpoint counter alone.
LEMMA CheckpointUpdate ==
    /\ [NullUpdate EXCEPT !.checkpoints = 1] \in PlanUpdates
    /\ \A row \in Row : RowBounded(row) /\ row.checkpoints < MaxCheckpoints =>
            Allowed([NullUpdate EXCEPT !.checkpoints = 1], row)
<1> DEFINE u == [NullUpdate EXCEPT !.checkpoints = 1]
<1>1. /\ u \in PlanUpdates /\ u.plan = Keep /\ u.cycles = 0 /\ u.failures = 0
      /\ u.checkpoints = 1 /\ u.replans = 0
  BY NullIsUpdate DEF PlanUpdates, Updates, NullUpdate
<1> HIDE DEF u
<1>2. ASSUME NEW row \in Row, RowBounded(row), row.checkpoints < MaxCheckpoints
      PROVE  Allowed(u, row)
    <3>1. row.checkpoints + u.checkpoints <= MaxCheckpoints
      BY <1>1, <1>2, ControllerAssumption DEF Row, ControllerAssumption
    <3>2. /\ row.cycles + u.cycles <= MaxTotalCycles /\ u.failures <= u.cycles
          /\ row.replans + u.replans <= MaxReplans
      BY <1>1, <1>2 DEF Row, RowBounded
    <3>3. QED BY <1>1, <3>1, <3>2 DEF Allowed
<1>3. QED BY <1>1, <1>2 DEF u

LEMMA CheckpointDecidePlan ==
    ASSUME IInv, LedgerInv, NEW o \in Owners, CheckpointDecide(o)
    PROVE  PlanStep(o)
<1>1. ctl[o].pc = "checkpointDecide" /\ ctl[o].pc \notin Gone
  BY DEF CheckpointDecide, At, Gone
<1>2. PICK q \in Runs : q = ctl[o].run
  BY <1>1, EngagedFacts
<1>3. CanSave(q, o) => /\ runs[q].checkpoints < MaxCheckpoints /\ runs[q] \in Row
                       /\ RowBounded(runs[q])
                       /\ ctl[o].snap.plan = runs[q].plan
  BY <1>1, <1>2, SaverKnows DEF Held
<1>4. ASSUME NEW stale \in (SUBSET Pending(ctl[o].snap.plan)) \ {{}},
             SaveReplan(o, stale, 1)
      PROVE  PlanStep(o)
  <2>1. CanSave(q, o) => runs[q].checkpoints + 1 <= MaxCheckpoints
    BY <1>3, ControllerAssumption DEF Row, ControllerAssumption
  <2>2. CanSave(q, o) => \A i \in stale \cap DOMAIN runs[q].plan :
            runs[q].plan[i].status \notin {"passed", "superseded"}
    BY <1>3, <1>4 DEF Pending
  <2>3. QED BY <1>1, <1>2, <1>4, <2>1, <2>2, SaveReplanPlan
<1>5. ASSUME SaveAndIterate(o, [NullUpdate EXCEPT !.checkpoints = 1])
      PROVE  PlanStep(o)
  BY <1>1, <1>2, <1>3, <1>5, CheckpointUpdate, SaveAndIteratePlan
<1>6. ASSUME NEW s \in {"paused", "blocked"}, UNCHANGED runs,
             ctl' = [ctl EXCEPT ![o].pc = "checkpointStop", ![o].fin = s]
      PROVE  PlanStep(o)
  <2> DEFINE d == [ctl[o] EXCEPT !.pc = "checkpointStop", !.fin = s]
  <2>1. ctl'[o] = d
    BY <1>6, GotoFinishPc
  <2>2. ctl[o] \in Locals
    BY DEF IInv
  <2>3. d.run = q /\ d.pc = "checkpointStop"
    BY <1>2, <2>2 DEF Locals
  <2> HIDE DEF d
  <2>4. CanSave(q, o)' => CanSave(q, o)
    BY <1>6 DEF CanSave, OwnedBy, IsActive
  <2>5. HeldLocal(o)'
    BY <1>3, <1>6, <2>1, <2>3, <2>4 DEF HeldLocal, Held
  <2>6. QED BY <1>6, <2>5, UnchangedKeepsLedger DEF PlanStep, Ledgers, LedgerKept
<1>7. QED BY <1>4, <1>5, <1>6 DEF CheckpointDecide

LEMMA CheckpointStopPlan ==
    ASSUME IInv, LedgerInv, NEW o \in Owners, CheckpointStop(o)
    PROVE  PlanStep(o)
<1> DEFINE u == [NullUpdate EXCEPT !.checkpoints = 1]
           c == [ctl[o] EXCEPT !.pc = "finish", !.snap = SnapAfterSave(o)]
<1>1. ctl[o].pc = "checkpointStop" /\ ctl[o].pc \notin Gone
  BY DEF CheckpointStop, At, Gone
<1>2. PICK q \in Runs : q = ctl[o].run
  BY <1>1, EngagedFacts
<1>3. Save(o, u) /\ ctl'[o] = c /\ ctl[o] \in Locals
  BY DEF CheckpointStop, IInv
<1>4. CanSave(q, o) => Allowed(u, runs[q])
  BY <1>1, <1>2, SaverKnows, CheckpointUpdate DEF Held
<1>5. ctl'[o].pc = "finish" /\ ctl'[o].run = q
  BY <1>2, <1>3 DEF Locals
<1> HIDE DEF c
<1>6. QED BY <1>1, <1>2, <1>3, <1>4, <1>5, CheckpointUpdate, FreeSavePlan
         DEF HeldPCs

LEMMA FinishPlan ==
    ASSUME IInv, NEW o \in Owners, ctl[o].pc \notin Gone,
           NEW s \in FinishStatuses, Finish(o, s)
    PROVE  PlanStep(o)
BY FinishKeepsLedger, ReturnPc, QuietPlanStep DEF Finish, HeldPCs

LEMMA FailureDecidePlan ==
    ASSUME IInv, LedgerInv, NEW o \in Owners, FailureDecide(o)
    PROVE  PlanStep(o)
<1> DEFINE i == ctl[o].task
           plan == [ctl[o].plan EXCEPT ![i].status = "pending"]
           u == [NullUpdate EXCEPT !.plan = plan]
<1>1. ctl[o].pc = "failureDecide" /\ ctl[o].pc \notin Gone
  BY DEF FailureDecide, At, Gone
<1>2. PICK q \in Runs : q = ctl[o].run
  BY <1>1, EngagedFacts
<1>3. CanSave(q, o) => /\ TaskIs(ctl[o], runs[q], "failed") /\ runs[q] \in Row
                       /\ RowBounded(runs[q]) /\ runs[q].plan \in Plans
  BY <1>1, <1>2, SaverKnows DEF Held
<1>4. ASSUME SaveAndIterate(o, u) PROVE PlanStep(o)
  <2>1. plan \in Plans
    BY <1>1, EngagedFacts, RetriedIsPlan DEF Locals
  <2>2. CanSave(q, o) => Extends(plan, runs[q].plan) /\ Survives(plan)
    <3>1. ASSUME CanSave(q, o)
          PROVE  Reworked(plan, runs[q].plan) /\ Survives(runs[q].plan)
      <4>1. runs[q].plan # <<>>
        BY <1>3, <3>1 DEF TaskIs
      <4>2. QED BY <1>3, <3>1, <4>1, RetriedReworks DEF TaskIs, RowBounded
    <3>2. QED BY <1>3, <2>1, <3>1, ReworkedExtends
  <2> HIDE DEF plan
  <2>3. /\ u \in PlanUpdates /\ u \in Updates /\ u.plan = plan
        /\ u.cycles = 0 /\ u.failures = 0 /\ u.checkpoints = 0 /\ u.replans = 0
    BY <2>1, RetryUpdate
  <2> HIDE DEF u
  <2>4. CanSave(q, o) => Allowed(u, runs[q])
    BY <1>3, <2>2, <2>3, UncountedAllowed
  <2>5. QED BY <1>1, <1>2, <1>4, <2>3, <2>4, SaveAndIteratePlan
<1>5. ASSUME SaveReplan(o, {i}, 0) PROVE PlanStep(o)
  <2>1. CanSave(q, o) => runs[q].checkpoints + 0 <= MaxCheckpoints
    BY <1>3 DEF Row, RowBounded
  <2>2. CanSave(q, o) => \A j \in {i} \cap DOMAIN runs[q].plan :
            runs[q].plan[j].status \notin {"passed", "superseded"}
    BY <1>3 DEF TaskIs
  <2>3. QED BY <1>1, <1>2, <1>5, <2>1, <2>2, SaveReplanPlan
<1>6. ASSUME NEW s \in {"paused", "blocked"}, Finish(o, s) PROVE PlanStep(o)
  BY <1>1, <1>6, FinishPlan DEF FinishStatuses
<1>7. QED BY <1>4, <1>5, <1>6 DEF FailureDecide

LEMMA CompletionDecidePlan ==
    ASSUME IInv, LedgerInv, NEW o \in Owners, CompletionDecide(o)
    PROVE  PlanStep(o)
<1>1. ctl[o].pc \notin Gone
  BY DEF CompletionDecide, At, Gone
<1>2. PICK q \in Runs : q = ctl[o].run
  BY <1>1, EngagedFacts
<1>3. ASSUME NEW s \in FinishStatuses, Finish(o, s) PROVE PlanStep(o)
  BY <1>1, <1>3, FinishPlan
<1>4. ASSUME SaveReplan(o, {}, 0) PROVE PlanStep(o)
  <2>1. CanSave(q, o) => runs[q].checkpoints + 0 <= MaxCheckpoints
    BY <1>2, SaverKnows DEF Row, RowBounded
  <2>2. QED BY <1>1, <1>2, <1>4, <2>1, SaveReplanPlan
<1>5. QED BY <1>3, <1>4 DEF CompletionDecide, FinishStatuses, Terminal

LEMMA FinishingPlan ==
    ASSUME IInv, NEW o \in Owners,
           FinalDecide(o) \/ FinishFlagged(o) \/ FailSafely(o)
    PROVE  PlanStep(o)
<1>1. ctl[o].pc \notin Gone
  BY DEF FinalDecide, FinishFlagged, FailSafely, At, Gone
<1>2. PICK s \in FinishStatuses : Finish(o, s)
  <2>1. ctl[o].fin \in FinishStatuses
    BY DEF IInv, Locals
  <2>2. {"completed", "paused", "failed"} \in SUBSET FinishStatuses
    BY DEF FinishStatuses, Terminal
  <2>3. QED BY <2>1, <2>2 DEF FinalDecide, FinishFlagged, FailSafely
<1>3. QED BY <1>1, <1>2, FinishPlan

LEMMA ReadingPlan ==
    ASSUME IInv, NEW o \in Owners,
           ClaimReconcile(o) \/ LoopReconcile(o) \/ FinalRead(o)
    PROVE  PlanStep(o)
<1>1. RowsInv
  BY DEF IInv
<1>2. CASE ClaimReconcile(o)
  <2>1. LedgerKept /\ ctl'[o].pc = "claim"
    BY <1>1, <1>2, ReconcileKeepsLedger, GotoPc DEF ClaimReconcile
  <2>2. QED BY <2>1, QuietPlanStep DEF HeldPCs
<1>3. CASE LoopReconcile(o)
  <2>1. LedgerKept
    BY <1>1, <1>3, ReconcileKeepsLedger DEF LoopReconcile
  <2>2. Goto(o, "read") \/ Goto(o, "finalRead") \/ Goto(o, "fail")
    BY <1>3 DEF LoopReconcile
  <2>3. ctl'[o].pc \in {"read", "finalRead", "fail"}
    BY <2>2, GotoPc
  <2>4. QED BY <2>1, <2>3, QuietPlanStep DEF HeldPCs
<1>4. CASE FinalRead(o)
  <2>1. LedgerKept
    BY <1>4, UnchangedKeepsLedger DEF FinalRead
  <2>2. ctl'[o].pc \in {"final", "finish"}
    <3> DEFINE pc == IF Pending(runs[ctl[o].run].plan) = {} THEN "final" ELSE "finish"
               snap == Snapshot(runs[ctl[o].run])
    <3>1. ctl'[o] = [ctl[o] EXCEPT !.snap = snap, !.fin = "paused", !.pc = pc]
      BY <1>4 DEF FinalRead, IInv
    <3>2. pc \in {"final", "finish"}
      OBVIOUS
    <3> HIDE DEF pc, snap
    <3>3. QED BY <3>1, <3>2 DEF IInv, Locals
  <2>3. QED BY <2>1, <2>2, QuietPlanStep DEF HeldPCs
<1>5. QED BY <1>2, <1>3, <1>4

LEMMA StepPlan ==
    ASSUME IInv, LedgerInv, NEW o \in Owners, Step(o) PROVE PlanStep(o)
BY ReadingPlan, ClaimPlan, RepairPlan, ReadFlagsPlan, SavePlanPlan, ReadRunPlan,
   StartTaskPlan, RecordResultPlan, CheckpointDecidePlan, CheckpointStopPlan,
   FailureDecidePlan, CompletionDecidePlan, FinishingPlan
DEF Step

LEMMA DisturbancePlan ==
    ASSUME IInv, NEW o \in Owners,
           \/ Raise(o) \/ Crash(o) \/ Restart(o)
           \/ \E r \in Runs, planOnly \in BOOLEAN : Launch(o, r, planOnly)
    PROVE  PlanStep(o)
<1>1. LedgerKept
  BY UnchangedKeepsLedger DEF Raise, Crash, Restart, Launch
<1>2. CASE Raise(o)
  <2>1. Goto(o, "failReconcile") \/ Return(o)
    BY <1>2 DEF Raise
  <2>2. ctl'[o].pc \in {"failReconcile", "idle"}
    BY <2>1, GotoPc, ReturnPc
  <2>3. QED BY <1>1, <2>2, QuietPlanStep DEF HeldPCs
<1>3. CASE Crash(o)
  <2>1. ctl'[o].pc = "crashed"
    BY <1>3, IdleIsLocals DEF Crash, IInv, Locals
  <2>2. QED BY <1>1, <2>1, QuietPlanStep DEF HeldPCs
<1>4. CASE Restart(o)
  BY <1>1, <1>4, ReturnPc, QuietPlanStep DEF Restart, HeldPCs
<1>5. ASSUME NEW r \in Runs, NEW planOnly \in BOOLEAN, Launch(o, r, planOnly)
      PROVE  PlanStep(o)
  <2>1. ctl'[o] = [IdleCtl EXCEPT !.pc = "launched", !.run = r,
                                  !.planOnly = planOnly]
    BY <1>5 DEF Launch, IInv
  <2>2. ctl'[o].pc = "launched"
    BY <2>1, IdleIsLocals DEF Locals
  <2>3. QED BY <1>1, <2>2, QuietPlanStep DEF HeldPCs
<1>6. QED BY <1>2, <1>3, <1>4, <1>5

LEMMA InitLedgerInv == Init => LedgerInv
<1> SUFFICES ASSUME Init PROVE LedgerInv
  OBVIOUS
<1>1. \A r \in Runs : RowBounded(runs[r])
  <2>1. /\ AbsentRow.plan = <<>> /\ AbsentRow.cycles = 0 /\ AbsentRow.failures = 0
        /\ AbsentRow.checkpoints = 0 /\ AbsentRow.replans = 0
    BY DEF AbsentRow
  <2>2. RowBounded(AbsentRow)
    BY <2>1, ControllerAssumption DEF RowBounded, ControllerAssumption
  <2>3. QED BY <2>2 DEF Init
<1>2. \A o \in Owners : HeldLocal(o)
  BY IdleIsLocals DEF Init, HeldLocal, Held
<1>3. QED BY <1>1, <1>2 DEF LedgerInv

LEMMA NextLedger ==
    ASSUME IInv, LedgerInv, Next
    PROVE  LedgerInv' /\ \A r \in Runs : Extends(runs'[r].plan, runs[r].plan)
<1>1. RowsInv
  BY DEF IInv
<1>2. ASSUME NEW o \in Owners,
             \/ Step(o) \/ Raise(o) \/ Crash(o) \/ Restart(o)
             \/ \E r \in Runs, planOnly \in BOOLEAN : Launch(o, r, planOnly)
      PROVE  Preserved(o) /\ PlanStep(o)
  BY <1>2, StepIsPreserved, DisturbanceIsPreserved, LaunchIsPreserved,
     StepPlan, DisturbancePlan
<1>3. ASSUME NEW o \in Owners, HeartbeatTick(o)
      PROVE  Sound /\ (\A p \in Owners : Unaffected(p)) /\ UNCHANGED ctl /\ LedgerKept
  <2>1. PICK q \in Runs : q = ctl[o].run
    BY <1>3, EngagedFacts DEF HeartbeatTick, Gone
  <2>2. Heartbeat(q, o) /\ UNCHANGED ctl
    BY <1>3, <2>1 DEF HeartbeatTick
  <2>3. QED BY <1>1, <2>2, TouchIsSound, TouchKeepsLedger
<1>4. ASSUME NEW r \in Runs, Operator(r) \/ Expire(r)
      PROVE  Sound /\ (\A p \in Owners : Unaffected(p)) /\ UNCHANGED ctl /\ LedgerKept
  BY <1>1, <1>4, TouchIsSound, TouchKeepsLedger DEF Operator, Expire
<1>5. ASSUME Query
      PROVE  Sound /\ (\A p \in Owners : Unaffected(p)) /\ UNCHANGED ctl /\ LedgerKept
  BY <1>1, <1>5, ReconcileStep, ReconcileKeepsLedger DEF Query
<1>6. QED
  BY <1>2, <1>3, <1>4, <1>5, PlanStepKeepsLedgerInv, WorldKeepsLedgerInv DEF Next

LEMMA NextLedgerInv == IInv /\ LedgerInv /\ [Next]_vars => LedgerInv'
<1>1. ASSUME LedgerInv, UNCHANGED vars PROVE LedgerInv'
  BY <1>1 DEF vars, LedgerInv, HeldLocal, CanSave, OwnedBy, IsActive
<1>2. QED BY <1>1, NextLedger

-----------------------------------------------------------------------------
\* Across any number of invocations, crashes and resumes a run stays within
\* its cycle, checkpoint, replan and task budgets, and every accepted plan
\* keeps a validation that was not superseded.
THEOREM ControllerReplansBounded == Spec => []ReplansAreBounded
<1>1. IInv /\ LedgerInv => ReplansAreBounded
  BY DEF IInv, RowsInv, Plans, LedgerInv, RowBounded, Survives,
         ReplansAreBounded, WithinBudgets, ValidationSurvives
<1>2. QED
  BY <1>1, InitIInv, NextIInv, InitLedgerInv, NextLedgerInv, PTL DEF Spec

\* The plan is an audit ledger: no controller drops or reorders a task, and a
\* task that passed or was superseded is never rewritten.
THEOREM ControllerAuditLedger == Spec => AuditLedger
<1> DEFINE Audited(old, new) ==
        /\ Len(old) <= Len(new)
        /\ \A i \in DOMAIN old :
              /\ new[i].kind = old[i].kind
              /\ old[i].status \in {"passed", "superseded"} => new[i] = old[i]
<1>1. IInv /\ LedgerInv /\ [Next]_vars =>
        [\A r \in Runs : Audited(runs[r].plan, runs'[r].plan)]_vars
  BY NextLedger DEF Extends
<1>2. QED
  BY <1>1, InitIInv, NextIInv, InitLedgerInv, NextLedgerInv, PTL
  DEF Spec, AuditLedger

-----------------------------------------------------------------------------
\* Who executes a run, and how many of its tasks start after a pause.

\* Where a controller is inside execute_run, and where no pause is looked at
\* any more before a task starts.
Controlling == InTry \cup {"failReconcile", "fail"}
NearStart == {"reconcile", "read", "startTask"}

\* While leases are renewed in time, who executes a run is its owner.
ControlInv ==
    ~ ClockMayJump =>
        \A o \in Owners : ctl[o].pc \in Controlling =>
            /\ OwnedBy(ctl[o].run, o)
            /\ runs[ctl[o].run].lease = "live"

\* A task has started since the pause only if its controller is past the start.
PauseInv ==
    /\ \A r \in Runs : /\ starts[r] \in {0, 1}
                       /\ ~ runs[r].pauseReq => starts[r] = 0
    /\ \A o \in Owners, r \in Runs :
          ctl[o].run = r /\ ctl[o].pc \in NearStart /\ OwnedBy(r, o) =>
              starts[r] = 0

\* What a step of controller o does to the row it executes, and where it leads.
Moved(o) ==
    /\ \/ UNCHANGED runs
       \/ Reconcile
       \/ \E q \in Runs : /\ ctl[o].run = q
                          /\ \/ \E u \in Updates :
                                   /\ SaveProgress(q, o, u)
                                   /\ u.current \in {Keep, 0} \/ ctl[o].pc = "startTask"
                             \/ \E s \in FinishStatuses :
                                   FinishRun(q, o, s) /\ ctl'[o].pc \in Gone
                             \/ ClaimRun(q, o)
    /\ ctl'[o].pc \in Controlling =>
          /\ ctl'[o].run = ctl[o].run
          /\ ctl[o].pc \in Controlling \/ ClaimRun(ctl[o].run, o)
    /\ ctl'[o].pc \in NearStart =>
          \/ ctl[o].pc \in {"reconcile", "read"} /\ (UNCHANGED runs \/ Reconcile)
          \/ /\ UNCHANGED runs
             /\ OwnedBy(ctl[o].run, o) => ~ runs[ctl[o].run].pauseReq

LEMMA PcSets ==
    /\ NearStart \subseteq InTry /\ InTry \subseteq Controlling
    /\ Gone \cap Controlling = {}
    /\ \A pc \in Controlling : pc \notin Gone /\ pc \notin {"launched", "claim"}
BY DEF NearStart, InTry, Controlling, Gone

\* A step that leaves the rows as they are, or reconciles them.
LEMMA QuietMoves ==
    ASSUME NEW o \in Owners, UNCHANGED runs \/ Reconcile,
           ctl'[o].pc \notin NearStart,
           ctl'[o].pc \in Controlling =>
               ctl'[o].run = ctl[o].run /\ ctl[o].pc \in Controlling
    PROVE  Moved(o)
BY DEF Moved

LEMMA SaveMoves ==
    ASSUME IInv, NEW o \in Owners, ctl[o].pc \in InTry,
           NEW u \in Updates, Save(o, u),
           u.current \in {Keep, 0} \/ ctl[o].pc = "startTask",
           ctl'[o].run = ctl[o].run, ctl'[o].pc \notin NearStart
    PROVE  Moved(o)
<1>1. ctl[o].run \in Runs /\ ctl[o].pc \in Controlling
  BY PcSets, EngagedFacts
<1>2. CASE UNCHANGED runs
  BY <1>1, <1>2, QuietMoves
<1>3. CASE SaveProgress(ctl[o].run, o, u)
  BY <1>1, <1>3 DEF Moved
<1>4. QED BY <1>2, <1>3 DEF Save

LEMMA FinishMoves ==
    ASSUME IInv, NEW o \in Owners, ctl[o].pc \in Controlling,
           NEW s \in FinishStatuses, Finish(o, s)
    PROVE  Moved(o)
<1>1. ctl[o].run \in Runs
  BY PcSets, EngagedFacts
<1>2. ctl'[o].pc = "idle"
  BY ReturnPc DEF Finish
<1>3. ctl'[o].pc \notin NearStart \cup Controlling /\ ctl'[o].pc \in Gone
  BY <1>2 DEF NearStart, Controlling, InTry, Gone
<1>4. CASE UNCHANGED runs
  BY <1>3, <1>4, QuietMoves
<1>5. CASE FinishRun(ctl[o].run, o, s)
  BY <1>1, <1>3, <1>5 DEF Moved
<1>6. QED BY <1>4, <1>5 DEF Finish

\* The next iteration, after a save.
LEMMA SaveAndIterateMoves ==
    ASSUME IInv, NEW o \in Owners, ctl[o].pc \in InTry,
           NEW u \in PlanUpdates, u.current = Keep, SaveAndIterate(o, u)
    PROVE  Moved(o)
<1> DEFINE c == [ctl[o] EXCEPT !.snap = SnapAfterSave(o)]
<1>1. ctl[o].pc \notin Gone
  BY PcSets
<1>2. ctl[o] \in Locals /\ SnapAfterSave(o) \in Snaps /\ Save(o, u)
  BY <1>1, EngagedFacts, SnapAfterSaveIsSnap DEF SaveAndIterate
<1>3. c \in Locals /\ c.run = ctl[o].run
  BY <1>2 DEF Locals
<1>4. ctl'[o] = NextIteration(c)
  BY DEF SaveAndIterate, NextIteration, IInv
<1> HIDE DEF c
<1>5. ctl'[o].run = ctl[o].run /\ ctl'[o].pc \notin NearStart
  BY <1>3, <1>4, IterationIsLocals DEF NearStart
<1>6. QED BY <1>2, <1>5, SaveMoves DEF PlanUpdates

LEMMA SaveReplanMoves ==
    ASSUME IInv, NEW o \in Owners, ctl[o].pc \in InTry,
           NEW dropped, NEW checkpoints \in {0, 1},
           SaveReplan(o, dropped, checkpoints)
    PROVE  Moved(o)
<1>1. PICK kinds \in ReplanTasks \cup {<<>>}, asked \in BOOLEAN :
        SaveAndIterate(o, [NullUpdate EXCEPT
            !.plan = AppendReplan(ctl[o].snap.plan, dropped, kinds),
            !.replans = 1, !.checkpoints = checkpoints])
  BY DEF SaveReplan
<1> DEFINE plan == AppendReplan(ctl[o].snap.plan, dropped, kinds)
           u == [NullUpdate EXCEPT !.plan = plan, !.replans = 1,
                                   !.checkpoints = checkpoints]
<1>2. kinds \in Seq(Kinds) /\ ctl[o].pc \notin Gone
  BY PcSets, ControllerAssumption, EmptySeq DEF ControllerAssumption
<1>3. plan \in Plans
  BY <1>2, EngagedFacts, ReplannedIsPlan DEF Locals, Snaps
<1> HIDE DEF plan
<1>4. u \in PlanUpdates
  BY <1>3, ReplanUpdate
<1>5. u.current = Keep
  BY DEF NullUpdate
<1> HIDE DEF u
<1>6. SaveAndIterate(o, u)
  BY <1>1 DEF u, plan
<1>7. QED BY <1>4, <1>5, <1>6, SaveAndIterateMoves

LEMMA ResumeMoves ==
    ASSUME IInv, NEW o \in Owners, ctl[o].pc \in InTry,
           NEW plan \in Plans,
           NEW u \in PlanUpdates, u.current = Keep, Save(o, u),
           ctl' = [ctl EXCEPT ![o] =
                      Resumed([ctl[o] EXCEPT !.plan = plan,
                                             !.snap = SnapAfterSave(o)])]
    PROVE  Moved(o)
<1> DEFINE c == [ctl[o] EXCEPT !.plan = plan, !.snap = SnapAfterSave(o)]
<1>0. ctl[o].pc \notin Gone
  BY PcSets
<1>1. ctl[o] \in Locals /\ ctl[o].fin # "completed" /\ SnapAfterSave(o) \in Snaps
  BY <1>0, EngagedFacts, SnapAfterSaveIsSnap DEF LocalInv
<1>2. c \in Locals /\ c.run = ctl[o].run /\ c.fin # "completed"
  BY <1>1 DEF Locals
<1>3. ctl'[o] = Resumed(c)
  BY DEF IInv
<1> HIDE DEF c
<1>4. ctl'[o].run = ctl[o].run /\ ctl'[o].pc \notin NearStart
  BY <1>2, <1>3, ResumedIsLocals DEF NearStart
<1>5. QED BY <1>4, SaveMoves DEF PlanUpdates


-----------------------------------------------------------------------------
\* Every step, as a move.

LEMMA ClaimMoves ==
    ASSUME IInv, NEW o \in Owners, Claim(o) PROVE Moved(o)
<1>1. ctl[o].pc = "claim" /\ ctl[o].pc \notin Gone
  BY DEF Claim, At, Gone
<1>2. PICK q \in Runs : q = ctl[o].run
  BY <1>1, EngagedFacts
<1>3. ctl[o] \in Locals /\ RowsInv /\ runs[q] \in Row
  BY <1>1, <1>2, EngagedFacts
<1>4. CASE Return(o) /\ UNCHANGED runs
  BY <1>4, ReturnPc, QuietMoves DEF NearStart, Controlling, InTry
<1> DEFINE plan == runs[q].plan
           snap == Snapshot(runs[q])
           c == [ctl[o] EXCEPT !.plan = plan, !.snap = snap]
           d == IF HasRunning(c.plan) THEN [c EXCEPT !.pc = "repair"]
                                      ELSE Resumed(c)
<1>5. CASE ClaimRun(q, o) /\ ctl' = [ctl EXCEPT ![o] = d]
  <2>1. plan \in Plans /\ snap \in Snaps
    BY <1>3, RowGivesSnap DEF RowsInv
  <2> HIDE DEF snap, plan
  <2>2. c \in Locals /\ c.run = q /\ c.fin # "completed"
    BY <1>2, <1>3, <2>1 DEF Locals, IInv, LocalInv
  <2> HIDE DEF c
  <2>3. ctl'[o] = d
    BY <1>5 DEF IInv
  <2>4. d.run = q /\ d.pc \notin NearStart
    <3>1. CASE HasRunning(c.plan)
      BY <2>2, <3>1 DEF Locals, NearStart
    <3>2. CASE ~ HasRunning(c.plan)
      BY <2>2, <3>2, ResumedIsLocals DEF NearStart
    <3>3. QED BY <3>1, <3>2
  <2> HIDE DEF d
  <2>5. QED BY <1>2, <1>5, <2>3, <2>4 DEF Moved
<1>6. QED BY <1>2, <1>4, <1>5 DEF Claim

LEMMA RepairMoves ==
    ASSUME IInv, NEW o \in Owners, Repair(o) PROVE Moved(o)
<1> DEFINE plan == Repaired(ctl[o].plan)
           u == [NullUpdate EXCEPT !.plan = plan, !.status = "running"]
<1>1. ctl[o].pc \in InTry /\ ctl[o].pc \notin Gone
  BY DEF Repair, At, InTry, Gone
<1>2. plan \in Plans
  BY <1>1, EngagedFacts, RepairedIsPlan DEF Locals
<1>3. /\ Save(o, u)
      /\ ctl' = [ctl EXCEPT ![o] = Resumed([ctl[o] EXCEPT !.plan = plan,
                                                  !.snap = SnapAfterSave(o)])]
  BY DEF Repair, IInv
<1> HIDE DEF plan
<1>4. u \in PlanUpdates /\ u.current = Keep
  BY <1>2, RepairUpdate DEF NullUpdate
<1> HIDE DEF u
<1>5. QED BY <1>1, <1>2, <1>3, <1>4, ResumeMoves

LEMMA SavePlanMoves ==
    ASSUME IInv, NEW o \in Owners, SavePlan(o) PROVE Moved(o)
<1>1. ctl[o].pc \in InTry
  BY DEF SavePlan, At, InTry
<1>2. PICK kinds \in PlannerTasks :
        /\ Save(o, [NullUpdate EXCEPT !.plan = NormalizePlan(kinds),
                                      !.criteria = TRUE, !.status = "running"])
        /\ ctl' = [ctl EXCEPT ![o] =
                      Resumed([ctl[o] EXCEPT !.plan = NormalizePlan(kinds),
                                             !.snap = SnapAfterSave(o)])]
  BY DEF SavePlan, IInv
<1> DEFINE plan == NormalizePlan(kinds)
           u == [NullUpdate EXCEPT !.plan = plan, !.criteria = TRUE,
                                   !.status = "running"]
<1>3. plan \in Plans
  BY NormalizedIsPlan, ControllerAssumption DEF ControllerAssumption
<1> HIDE DEF plan
<1>4. u \in PlanUpdates /\ u.current = Keep
  BY <1>3, PlanUpdate DEF NullUpdate
<1> HIDE DEF u
<1>5. /\ Save(o, u)
      /\ ctl' = [ctl EXCEPT ![o] = Resumed([ctl[o] EXCEPT !.plan = plan,
                                                  !.snap = SnapAfterSave(o)])]
  BY <1>2 DEF plan, u
<1>6. QED BY <1>1, <1>3, <1>4, <1>5, ResumeMoves

\* The head of the loop looks at the pause before it goes on.
LEMMA ReadFlagsMoves ==
    ASSUME IInv, NEW o \in Owners, ReadFlags(o) PROVE Moved(o)
<1> DEFINE pc == ctl[o].pc
           row == runs[ctl[o].run]
<1>1. pc \in {"planning", "loop", "work", "preCheckpoint", "checkpoint",
              "failure", "completion", "final"}
  BY DEF ReadFlags, AfterFlags
<1>2. UNCHANGED runs /\ pc \in Controlling /\ ctl[o] \in Locals
  BY <1>1 DEF ReadFlags, Controlling, InTry, IInv
<1>3. CASE Goto(o, "failReconcile")
  <2>1. ctl'[o] = [ctl[o] EXCEPT !.pc = "failReconcile"] /\ ctl'[o].pc = "failReconcile"
    BY <1>3, GotoPc
  <2>2. ctl'[o].run = ctl[o].run
    BY <1>2, <2>1 DEF Locals
  <2>3. QED BY <1>2, <2>1, <2>2, QuietMoves DEF NearStart
<1>4. ASSUME NEW p \in {"finish", "checkpointStop"}, NEW s \in {"cancelled", "paused"},
             ctl' = [ctl EXCEPT ![o].pc = p, ![o].fin = s]
      PROVE  Moved(o)
  <2>1. ctl'[o] = [ctl[o] EXCEPT !.pc = p, !.fin = s] /\ ctl'[o].pc = p
    BY <1>4, GotoFinishPc
  <2>2. ctl'[o].run = ctl[o].run
    BY <1>2, <2>1 DEF Locals
  <2>3. QED BY <1>2, <2>1, <2>2, QuietMoves DEF NearStart
<1>5. CASE /\ row.owner = o
           /\ ~ (row.pauseReq /\ pc \notin IgnorePause)
           /\ Goto(o, AfterFlags[pc])
  <2> DEFINE next == AfterFlags[pc]
  <2>1. \/ pc = "loop" /\ next = "reconcile"
        \/ next \in {"savePlan", "record", "checkpoint", "checkpointDecide",
                     "failureDecide", "completionDecide", "finalDecide"}
    BY <1>1 DEF AfterFlags
  <2>2. ctl'[o] = [ctl[o] EXCEPT !.pc = next] /\ ctl'[o].pc = next
    BY <1>5, GotoPc
  <2> HIDE DEF next
  <2>3. ctl'[o].run = ctl[o].run
    BY <1>2, <2>2 DEF Locals
  <2>4. CASE pc = "loop" /\ next = "reconcile"
    <3>1. ~ row.pauseReq
      BY <1>5, <2>4 DEF IgnorePause
    <3>2. QED BY <1>2, <2>3, <3>1 DEF Moved
  <2>5. CASE next \in {"savePlan", "record", "checkpoint", "checkpointDecide",
                       "failureDecide", "completionDecide", "finalDecide"}
    BY <1>2, <2>2, <2>3, <2>5, QuietMoves DEF NearStart
  <2>6. QED BY <2>1, <2>4, <2>5
<1>6. QED
  BY <1>3, <1>4, <1>5 DEF ReadFlags, GotoFinish

LEMMA ReadingMoves ==
    ASSUME IInv, NEW o \in Owners,
           ClaimReconcile(o) \/ LoopReconcile(o) \/ FinalRead(o) \/ ReadRun(o)
    PROVE  Moved(o)
<1>0. ctl[o] \in Locals
  BY DEF IInv
<1>1. CASE ClaimReconcile(o)
  <2>1. Reconcile /\ ctl'[o].pc = "claim"
    BY <1>1, GotoPc DEF ClaimReconcile
  <2>2. QED BY <2>1, QuietMoves DEF NearStart, Controlling, InTry
<1>2. CASE LoopReconcile(o)
  <2>1. Reconcile
    BY <1>2 DEF LoopReconcile
  <2>2. ASSUME NEW pc \in {"read", "finalRead", "fail"}, Goto(o, pc),
               pc = "read" => ctl[o].pc = "reconcile", ctl[o].pc \in Controlling
        PROVE  Moved(o)
    <3>1. ctl'[o] = [ctl[o] EXCEPT !.pc = pc] /\ ctl'[o].pc = pc
      BY <2>2, GotoPc
    <3>2. ctl'[o].run = ctl[o].run
      BY <1>0, <3>1 DEF Locals
    <3>3. QED BY <2>1, <2>2, <3>1, <3>2 DEF Moved, NearStart
  <2>3. QED BY <1>2, <2>2 DEF LoopReconcile, At, Controlling, InTry
<1>3. CASE FinalRead(o)
  <2> DEFINE pc == IF Pending(runs[ctl[o].run].plan) = {} THEN "final" ELSE "finish"
             snap == Snapshot(runs[ctl[o].run])
  <2>1. ctl'[o] = [ctl[o] EXCEPT !.snap = snap, !.fin = "paused", !.pc = pc]
    BY <1>3 DEF FinalRead, IInv
  <2>2. pc \in {"final", "finish"}
    OBVIOUS
  <2> HIDE DEF pc, snap
  <2>3. ctl'[o].pc = pc /\ ctl'[o].run = ctl[o].run
    BY <1>0, <2>1 DEF Locals
  <2>4. ctl[o].pc \in Controlling /\ UNCHANGED runs
    BY <1>3 DEF FinalRead, At, Controlling, InTry
  <2>5. QED BY <2>2, <2>3, <2>4, QuietMoves DEF NearStart
<1>4. CASE ReadRun(o)
  <2>1. ctl[o].pc = "read" /\ UNCHANGED runs
    BY <1>4 DEF ReadRun, At
  <2> DEFINE snap == Snapshot(runs[ctl[o].run])
             plan == runs[ctl[o].run].plan
             c == [ctl[o] EXCEPT !.snap = snap]
  <2>2. \/ ctl' = [ctl EXCEPT ![o] = [c EXCEPT !.pc = "finish", !.fin = "blocked"]]
        \/ ctl' = [ctl EXCEPT ![o] = [c EXCEPT !.pc = "completion"]]
        \/ \E i \in Pending(plan) :
              ctl' = [ctl EXCEPT ![o] =
                         [c EXCEPT !.pc = "startTask", !.plan = plan, !.task = i]]
    BY <1>4 DEF ReadRun
  <2> HIDE DEF snap, plan
  <2>3. ctl'[o].run = ctl[o].run
    BY <1>0, <2>2 DEF IInv, Locals
  <2>4. QED BY <2>1, <2>3 DEF Moved, Controlling, InTry
<1>5. QED BY <1>1, <1>2, <1>3, <1>4

LEMMA StartTaskMoves ==
    ASSUME IInv, NEW o \in Owners, StartTask(o) PROVE Moved(o)
<1> DEFINE i == ctl[o].task
           plan == Started(ctl[o].plan, i)
           u == [NullUpdate EXCEPT !.plan = plan, !.status = "running",
                                   !.current = i]
           c == [ctl[o] EXCEPT !.pc = "work", !.plan = plan,
                               !.snap = SnapAfterSave(o)]
<1>1. ctl[o].pc = "startTask" /\ ctl[o].pc \in InTry /\ ctl[o].pc \notin Gone
  BY DEF StartTask, At, InTry, Gone
<1>2. plan \in Plans /\ ctl[o] \in Locals /\ i \in 0..MaxTasks
  BY <1>1, EngagedFacts, StartedIsPlan DEF Locals
<1>3. Save(o, u) /\ ctl'[o] = c
  BY DEF StartTask, IInv
<1> HIDE DEF plan
<1>4. u \in Updates
  BY <1>2, StartUpdate
<1> HIDE DEF u
<1>5. ctl'[o].run = ctl[o].run /\ ctl'[o].pc = "work"
  BY <1>2, <1>3 DEF Locals
<1>6. QED BY <1>1, <1>3, <1>4, <1>5, SaveMoves DEF NearStart

LEMMA RecordResultMoves ==
    ASSUME IInv, NEW o \in Owners, RecordResult(o) PROVE Moved(o)
<1>1. ctl[o].pc \in InTry /\ ctl[o].pc \notin Gone
  BY DEF RecordResult, At, InTry, Gone
<1> DEFINE i == ctl[o].task
           kind == ctl[o].plan[i].kind
<1>2. PICK work \in WorkResults :
        LET passed == TaskPassed(work, kind)
            plan == Recorded(ctl[o].plan, i, work)
            c == [ctl[o] EXCEPT !.plan = plan, !.snap = SnapAfterSave(o),
                                !.invoked = @ + 1]
        IN  /\ Save(o, [NullUpdate EXCEPT
                           !.plan = plan, !.current = 0, !.cycles = 1,
                           !.failures = IF passed THEN 0 ELSE 1])
            /\ ctl'[o] = IF passed /\ ShouldCheckpoint(kind, c.snap)
                           THEN [c EXCEPT !.pc = "preCheckpoint"]
                         ELSE IF passed THEN NextIteration(c)
                         ELSE IF c.snap.failures >= MaxFailures
                           THEN [c EXCEPT !.pc = "finish", !.fin = "blocked"]
                         ELSE [c EXCEPT !.pc = "failure"]
  BY DEF RecordResult, IInv
<1> DEFINE passed == TaskPassed(work, kind)
           plan == Recorded(ctl[o].plan, i, work)
           failed == IF passed THEN 0 ELSE 1
           u == [NullUpdate EXCEPT !.plan = plan, !.current = 0, !.cycles = 1,
                                   !.failures = failed]
           c == [ctl[o] EXCEPT !.plan = plan, !.snap = SnapAfterSave(o),
                               !.invoked = @ + 1]
<1>3. plan \in Plans /\ ctl[o] \in Locals /\ failed \in {0, 1}
  BY <1>1, EngagedFacts, RecordedIsPlan DEF Locals
<1>4. Save(o, u)
  BY <1>2
<1>5. ctl'[o] \in {[c EXCEPT !.pc = "preCheckpoint"], NextIteration(c),
                   [c EXCEPT !.pc = "finish", !.fin = "blocked"],
                   [c EXCEPT !.pc = "failure"]}
  BY <1>2
<1> HIDE DEF plan, failed, passed
<1>6. u \in PlanUpdates /\ u.current = 0
  BY <1>3, RecordUpdate DEF NullUpdate
<1> HIDE DEF u
<1>7. SnapAfterSave(o) \in Snaps
  BY <1>1, <1>4, <1>6, SnapAfterSaveIsSnap
<1>8. c.run = ctl[o].run /\ DOMAIN c = DOMAIN ctl[o]
  BY <1>3 DEF Locals
<1>9. NextIteration(c).run = c.run /\ NextIteration(c).pc \in {"loop", "finalReconcile"}
  BY <1>3, <1>8 DEF NextIteration, Locals
<1>10. ctl'[o].run = ctl[o].run
       /\ ctl'[o].pc \in {"preCheckpoint", "loop", "finalReconcile", "finish", "failure"}
  BY <1>3, <1>5, <1>8, <1>9 DEF Locals
<1>11. QED BY <1>1, <1>4, <1>6, <1>10, SaveMoves DEF PlanUpdates, NearStart

LEMMA CheckpointMoves ==
    ASSUME IInv, NEW o \in Owners, CheckpointDecide(o) \/ CheckpointStop(o)
    PROVE  Moved(o)
<1> DEFINE u == [NullUpdate EXCEPT !.checkpoints = 1]
<1>1. ctl[o].pc \in InTry /\ ctl[o].pc \notin Gone /\ ctl[o] \in Locals
  BY DEF CheckpointDecide, CheckpointStop, At, InTry, Gone, IInv
<1>2. u \in PlanUpdates /\ u.current = Keep
  BY CheckpointUpdate DEF NullUpdate
<1>3. CASE \E stale \in (SUBSET Pending(ctl[o].snap.plan)) \ {{}} :
              SaveReplan(o, stale, 1)
  BY <1>1, <1>3, SaveReplanMoves
<1>4. CASE SaveAndIterate(o, u)
  BY <1>1, <1>2, <1>4, SaveAndIterateMoves
<1>5. ASSUME NEW s \in {"paused", "blocked"}, UNCHANGED runs,
             ctl' = [ctl EXCEPT ![o].pc = "checkpointStop", ![o].fin = s]
      PROVE  Moved(o)
  <2>1. ctl'[o] = [ctl[o] EXCEPT !.pc = "checkpointStop", !.fin = s]
    BY <1>5, GotoFinishPc
  <2>2. ctl'[o].run = ctl[o].run /\ ctl'[o].pc = "checkpointStop"
    BY <1>1, <2>1 DEF Locals
  <2>3. QED BY <1>1, <1>5, <2>2, PcSets, QuietMoves DEF NearStart
<1>6. CASE CheckpointStop(o)
  <2>1. Save(o, u) /\ ctl'[o] = [ctl[o] EXCEPT !.pc = "finish", !.snap = SnapAfterSave(o)]
    BY <1>6 DEF CheckpointStop, IInv
  <2>2. ctl'[o].run = ctl[o].run /\ ctl'[o].pc = "finish"
    BY <1>1, <2>1 DEF Locals
  <2> HIDE DEF u
  <2>3. QED BY <1>1, <1>2, <2>1, <2>2, SaveMoves DEF PlanUpdates, NearStart
<1>7. QED BY <1>3, <1>4, <1>5, <1>6 DEF CheckpointDecide

LEMMA FailureDecideMoves ==
    ASSUME IInv, NEW o \in Owners, FailureDecide(o) PROVE Moved(o)
<1> DEFINE i == ctl[o].task
           plan == [ctl[o].plan EXCEPT ![i].status = "pending"]
           u == [NullUpdate EXCEPT !.plan = plan]
<1>1. ctl[o].pc \in InTry /\ ctl[o].pc \notin Gone
  BY DEF FailureDecide, At, InTry, Gone
<1>2. CASE SaveAndIterate(o, u)
  <2>1. plan \in Plans
    BY <1>1, EngagedFacts, RetriedIsPlan DEF Locals
  <2> HIDE DEF plan
  <2>2. u \in PlanUpdates /\ u.current = Keep
    BY <2>1, RetryUpdate DEF NullUpdate
  <2> HIDE DEF u
  <2>3. QED BY <1>1, <1>2, <2>2, SaveAndIterateMoves
<1>3. CASE SaveReplan(o, {i}, 0)
  BY <1>1, <1>3, SaveReplanMoves
<1>4. ASSUME NEW s \in {"paused", "blocked"}, Finish(o, s) PROVE Moved(o)
  BY <1>1, <1>4, PcSets, FinishMoves DEF FinishStatuses
<1>5. QED BY <1>2, <1>3, <1>4 DEF FailureDecide

LEMMA FinishingMoves ==
    ASSUME IInv, NEW o \in Owners,
           CompletionDecide(o) \/ FinalDecide(o) \/ FinishFlagged(o) \/ FailSafely(o)
    PROVE  Moved(o)
<1>1. ctl[o].pc \in Controlling
  BY DEF CompletionDecide, FinalDecide, FinishFlagged, FailSafely, At, Controlling, InTry
<1>2. CASE CompletionDecide(o) /\ SaveReplan(o, {}, 0)
  BY <1>2, SaveReplanMoves DEF CompletionDecide, At, InTry
<1>3. CASE \E s \in FinishStatuses : Finish(o, s)
  BY <1>1, <1>3, FinishMoves
<1>4. ctl[o].fin \in FinishStatuses
  BY DEF IInv, Locals
<1>5. {"completed", "paused", "failed", "blocked"} \in SUBSET FinishStatuses
  BY DEF FinishStatuses, Terminal
<1>6. QED
  BY <1>2, <1>3, <1>4, <1>5 DEF CompletionDecide, FinalDecide, FinishFlagged, FailSafely

LEMMA StepMoves ==
    ASSUME IInv, NEW o \in Owners, Step(o) PROVE Moved(o)
BY ClaimMoves, RepairMoves, ReadFlagsMoves, SavePlanMoves, ReadingMoves,
   StartTaskMoves, RecordResultMoves, CheckpointMoves, FailureDecideMoves,
   FinishingMoves
DEF Step

\* Exceptions, crashes, restarts and launches.
LEMMA DisturbanceMoves ==
    ASSUME IInv, NEW o \in Owners,
           \/ Raise(o) \/ Crash(o) \/ Restart(o)
           \/ \E r \in Runs, planOnly \in BOOLEAN : Launch(o, r, planOnly)
    PROVE  Moved(o)
<1>1. UNCHANGED runs
  BY DEF Raise, Crash, Restart, Launch
<1>2. ASSUME ctl[o].pc \in InTry, Goto(o, "failReconcile") PROVE Moved(o)
  <2>1. ctl'[o] = [ctl[o] EXCEPT !.pc = "failReconcile"] /\ ctl'[o].pc = "failReconcile"
    BY <1>2, GotoPc
  <2>2. ctl'[o].run = ctl[o].run
    BY <2>1 DEF IInv, Locals
  <2>3. QED BY <1>1, <1>2, <2>1, <2>2, PcSets, QuietMoves DEF NearStart
<1>3. ASSUME ctl'[o].pc \in {"idle", "crashed", "launched"} PROVE Moved(o)
  BY <1>1, <1>3, QuietMoves DEF NearStart, Controlling, InTry
<1>4. CASE Raise(o) \/ Restart(o)
  BY <1>2, <1>3, <1>4, ReturnPc DEF Raise, Restart
<1>5. CASE Crash(o)
  <2>1. ctl'[o].pc = "crashed"
    BY <1>5, IdleIsLocals DEF Crash, IInv, Locals
  <2>2. QED BY <1>3, <2>1
<1>6. ASSUME NEW r \in Runs, NEW planOnly \in BOOLEAN, Launch(o, r, planOnly)
      PROVE  Moved(o)
  <2>1. ctl'[o] = [IdleCtl EXCEPT !.pc = "launched", !.run = r,
                                  !.planOnly = planOnly]
    BY <1>6 DEF Launch, IInv
  <2>2. ctl'[o].pc = "launched"
    BY <2>1, IdleIsLocals DEF Locals
  <2>3. QED BY <1>3, <2>2
<1>7. QED BY <1>4, <1>5, <1>6


-----------------------------------------------------------------------------
\* What a move leaves of the row another controller, or the same, executes.
MovedRow(o, r) ==
    \/ runs'[r] = runs[r]
    \/ /\ runs[r].lease # "live" \/ runs[r].owner \in Crashed
       /\ runs'[r] = Interrupted(runs[r])
    \/ /\ ctl[o].run = r /\ OwnedBy(r, o)
       /\ \/ \E u \in Updates :
                /\ runs'[r] = Saved(runs[r], u)
                /\ u.current \in {Keep, 0} \/ ctl[o].pc = "startTask"
          \/ \E s \in FinishStatuses :
                runs'[r] = Finished(runs[r], s) /\ ctl'[o].pc \in Gone
    \/ /\ ctl[o].run = r /\ CanClaim(r, o)
       /\ runs'[r] = Claimed(runs[r], o)

LEMMA MovedRows ==
    ASSUME TypeOK, NEW o \in Owners, Moved(o), NEW r \in Runs
    PROVE  MovedRow(o, r)
<1>1. CASE UNCHANGED runs
  BY <1>1 DEF MovedRow
<1>2. CASE Reconcile
  BY <1>2 DEF Reconcile, ReconcileStaleRuns, Stale, MovedRow
<1>3. ASSUME NEW q \in Runs, ctl[o].run = q,
             \/ \E u \in Updates :
                   /\ SaveProgress(q, o, u)
                   /\ u.current \in {Keep, 0} \/ ctl[o].pc = "startTask"
             \/ \E s \in FinishStatuses :
                   FinishRun(q, o, s) /\ ctl'[o].pc \in Gone
             \/ ClaimRun(q, o)
      PROVE  MovedRow(o, r)
  <2>1. CASE r # q
    BY <1>3, <2>1 DEF TypeOK, SaveProgress, FinishRun, ClaimRun, MovedRow
  <2>2. CASE r = q
    <3>1. CASE \E u \in Updates :
                   /\ SaveProgress(q, o, u)
                   /\ u.current \in {Keep, 0} \/ ctl[o].pc = "startTask"
      BY <1>3, <2>2, <3>1 DEF TypeOK, SaveProgress, CanSave, MovedRow
    <3>2. CASE \E s \in FinishStatuses :
                   FinishRun(q, o, s) /\ ctl'[o].pc \in Gone
      BY <1>3, <2>2, <3>2 DEF TypeOK, FinishRun, MovedRow
    <3>3. CASE ClaimRun(q, o)
      BY <1>3, <2>2, <3>3 DEF TypeOK, ClaimRun, MovedRow
    <3>4. QED BY <1>3, <3>1, <3>2, <3>3
  <2>3. QED BY <2>1, <2>2
<1>4. QED BY <1>1, <1>2, <1>3 DEF Moved

LEMMA RowKeepsHold ==
    ASSUME TypeOK, NEW o \in Owners, NEW r \in Runs, MovedRow(o, r),
           NEW p \in Owners \ Crashed, p # o \/ ctl'[o].pc \notin Gone,
           OwnedBy(r, p), runs[r].lease = "live"
    PROVE  OwnedBy(r, p)' /\ runs'[r].lease = "live"
<1>0. runs[r] \in Row /\ runs[r].owner = p /\ runs[r].status \in Active
  BY DEF TypeOK, OwnedBy, IsActive
<1>1. CASE runs'[r] = runs[r]
  BY <1>1 DEF OwnedBy, IsActive
<1>2. CASE runs[r].lease # "live" \/ runs[r].owner \in Crashed
  BY <1>0, <1>2
<1>3. CASE OwnedBy(r, o) /\ \E s \in FinishStatuses :
                runs'[r] = Finished(runs[r], s) /\ ctl'[o].pc \in Gone
  BY <1>0, <1>3 DEF OwnedBy
<1>4. ASSUME NEW u \in Updates, runs'[r] = Saved(runs[r], u)
      PROVE  OwnedBy(r, p)' /\ runs'[r].lease = "live"
  BY <1>0, <1>4, SavedIsRow DEF OwnedBy, IsActive, Active
<1>5. CASE CanClaim(r, o) /\ runs'[r] = Claimed(runs[r], o)
  <2>1. p = o
    BY <1>0, <1>5 DEF CanClaim, IsActive
  <2>2. QED BY <1>0, <1>5, <2>1, ClaimedIsRow DEF OwnedBy, IsActive
<1>6. QED BY <1>1, <1>2, <1>3, <1>4, <1>5 DEF MovedRow

\* Only the save of a task that begins counts.
LEMMA RowStartsTask ==
    ASSUME TypeOK, NEW o \in Owners, NEW r \in Runs, MovedRow(o, r), TaskStarted(r)
    PROVE  /\ ctl[o].pc = "startTask" /\ ctl[o].run = r /\ OwnedBy(r, o)
           /\ runs'[r] # runs[r] /\ runs'[r] # Interrupted(runs[r])
<1>0. runs[r] \in Row /\ runs[r].current = 0 /\ runs'[r].current # 0
  BY DEF TypeOK, TaskStarted
<1>1. Interrupted(runs[r]).current = 0
  BY <1>0 DEF Interrupted, Disowned, Row
<1>2. \A s : Finished(runs[r], s).current = 0
  BY <1>0 DEF Finished, Disowned, Row
<1>3. Claimed(runs[r], o).current = 0
  BY <1>0 DEF Claimed, Row
<1>4. \A u : u.current \in {Keep, 0} => Saved(runs[r], u).current = 0
  BY <1>0 DEF Saved, Given, Row
<1>5. QED BY <1>0, <1>1, <1>2, <1>3, <1>4 DEF MovedRow

LEMMA MoveKeepsControl ==
    ASSUME IInv, ControlInv, NEW o \in Owners, Moved(o), Preserved(o)
    PROVE  ControlInv'
<1>1. TypeOK
  BY DEF IInv, RowsInv
<1>2. ASSUME ~ ClockMayJump, NEW p \in Owners, NEW r \in Runs,
             ctl'[p].pc \in Controlling, ctl'[p].run = r
      PROVE  OwnedBy(r, p)' /\ runs'[r].lease = "live"
  <2>1. ctl'[p].pc \notin Gone
    BY <1>2, PcSets
  <2>2. ASSUME ctl[p].pc \in Controlling, ctl[p].run = r
        PROVE  OwnedBy(r, p)' /\ runs'[r].lease = "live"
    <3>1. OwnedBy(r, p) /\ runs[r].lease = "live"
      BY <1>2, <2>2 DEF ControlInv
    <3>2. p \notin Crashed
      BY <2>2, PcSets DEF Crashed, At, Gone
    <3>3. QED BY <1>1, <2>1, <3>1, <3>2, MovedRows, RowKeepsHold
  <2>3. CASE p # o
    <3>1. ctl'[p] = ctl[p]
      BY <2>3 DEF Preserved, IInv
    <3>2. QED BY <1>2, <2>2, <3>1
  <2>4. CASE p = o /\ ctl[o].pc \in Controlling
    BY <1>2, <2>2, <2>4 DEF Moved
  <2>5. CASE p = o /\ ctl[o].pc \notin Controlling
    <3>1. ctl[o].run = r /\ ClaimRun(r, o)
      BY <1>2, <2>5 DEF Moved
    <3>2. runs'[r] = Claimed(runs[r], o) /\ runs[r] \in Row
      BY <1>1, <3>1 DEF ClaimRun, TypeOK
    <3>3. QED BY <2>5, <3>2, ClaimedIsRow DEF OwnedBy, IsActive
  <2>6. QED BY <2>3, <2>4, <2>5
<1>3. \A p \in Owners : ctl'[p].pc \in Controlling => ctl'[p].run \in Runs
  <2>1. IInv'
    BY PreservedKeepsIInv
  <2>2. QED BY <2>1, PcSets DEF IInv, Locals, LocalInv
<1>4. QED BY <1>2, <1>3 DEF ControlInv

LEMMA StartsCount ==
    ASSUME HistoryNext, NEW r \in Runs
    PROVE  starts'[r] = IF ~ runs'[r].pauseReq THEN 0
                        ELSE IF TaskStarted(r) THEN starts[r] + 1 ELSE starts[r]
BY DEF HistoryNext

LEMMA MoveKeepsPause ==
    ASSUME IInv, PauseInv, HistoryNext, NEW o \in Owners, Moved(o), Preserved(o)
    PROVE  PauseInv'
<1>0. TypeOK
  BY DEF IInv, RowsInv
<1>1. ASSUME NEW r \in Runs, TaskStarted(r)
      PROVE  starts[r] = 0 /\ OwnedBy(r, o) /\ ctl'[o].pc \notin NearStart
  <2>1. /\ ctl[o].pc = "startTask" /\ ctl[o].run = r /\ OwnedBy(r, o)
        /\ runs'[r] # runs[r] /\ runs'[r] # Interrupted(runs[r])
    BY <1>0, <1>1, MovedRows, RowStartsTask
  <2>2. starts[r] = 0
    BY <2>1 DEF PauseInv, NearStart
  <2>3. ~ UNCHANGED runs /\ ~ Reconcile
    BY <2>1 DEF Reconcile, ReconcileStaleRuns
  <2>4. ctl'[o].pc \notin NearStart
    BY <2>3 DEF Moved
  <2>5. QED BY <2>1, <2>2, <2>4
<1>2. ASSUME NEW r \in Runs
      PROVE  starts'[r] \in {0, 1} /\ (~ runs'[r].pauseReq => starts'[r] = 0)
  BY <1>1, StartsCount DEF PauseInv
<1>3. ASSUME NEW p \in Owners, NEW r \in Runs, ctl'[p].run = r,
             ctl'[p].pc \in NearStart, OwnedBy(r, p)'
      PROVE  starts'[r] = 0
  <2>1. CASE p # o
    <3>1. ctl'[p] = ctl[p] /\ OwnedBy(r, p)
      BY <1>3, <2>1 DEF Preserved, IInv, Unaffected
    <3>2. starts[r] = 0
      BY <1>3, <3>1 DEF PauseInv
    <3>3. ~ TaskStarted(r)
      BY <1>1, <2>1, <3>1 DEF OwnedBy
    <3>4. QED BY <3>2, <3>3, StartsCount
  <2>2. CASE p = o
    <3>1. UNCHANGED runs \/ Reconcile
      BY <1>3, <2>2 DEF Moved
    <3>2. ctl[o].run = r
      BY <1>3, <2>2, PcSets DEF Moved
    <3>3. runs'[r] = runs[r]
      <4>1. CASE Reconcile
        <5>1. runs'[r] = runs[r] \/ (runs'[r] = Interrupted(runs[r]) /\ runs[r] \in Row)
          BY <1>0, <4>1 DEF Reconcile, ReconcileStaleRuns, TypeOK
        <5>2. runs'[r].status \in Active
          BY <1>3, <2>2 DEF OwnedBy, IsActive
        <5>3. QED BY <5>1, <5>2, InterruptedIsRow DEF Active
      <4>2. QED BY <3>1, <4>1
    <3>4. OwnedBy(r, o)
      BY <1>3, <2>2, <3>3 DEF OwnedBy, IsActive
    <3>5. starts[r] = 0
      <4>1. CASE ctl[o].pc \in {"reconcile", "read"}
        BY <3>2, <3>4, <4>1 DEF PauseInv, NearStart
      <4>2. CASE ~ runs[r].pauseReq
        BY <4>2 DEF PauseInv
      <4>3. QED BY <1>3, <2>2, <3>2, <3>4, <4>1, <4>2 DEF Moved
    <3>6. ~ TaskStarted(r)
      BY <1>1, <1>3, <2>2
    <3>7. QED BY <3>5, <3>6, StartsCount
  <2>3. QED BY <2>1, <2>2
<1>4. QED BY <1>2, <1>3 DEF PauseInv


-----------------------------------------------------------------------------
\* Steps of the world, which move no controller and start no task.

WorldRow(r) ==
    \/ runs'[r] = runs[r]
    \/ /\ runs[r].lease # "live" \/ runs[r].owner \in Crashed
       /\ runs'[r] = Interrupted(runs[r])
    \/ runs'[r] = [runs[r] EXCEPT !.lease = "live"]
    \/ runs'[r] = [runs[r] EXCEPT !.pauseReq = TRUE]
    \/ runs'[r] = [runs[r] EXCEPT !.cancelReq = TRUE]
    \/ ~ IsActive(r) /\ runs'[r].current = runs[r].current
    \/ /\ ClockMayJump \/ Unattended(r)
       /\ runs'[r] = [runs[r] EXCEPT !.lease = "expired"]

LEMMA WorldRows ==
    ASSUME IInv, NEW r \in Runs,
           \/ \E o \in Owners : HeartbeatTick(o)
           \/ \E q \in Runs : Operator(q) \/ Expire(q)
           \/ Query
    PROVE  WorldRow(r)
<1>0. TypeOK /\ runs[r] \in Row
  BY DEF IInv, RowsInv, TypeOK
<1>1. ASSUME NEW o \in Owners, HeartbeatTick(o) PROVE WorldRow(r)
  <2>1. PICK q \in Runs : q = ctl[o].run
    BY <1>1, EngagedFacts DEF HeartbeatTick, Gone
  <2>2. Heartbeat(q, o)
    BY <1>1, <2>1 DEF HeartbeatTick
  <2>3. QED BY <1>0, <2>2 DEF TypeOK, Heartbeat, WorldRow
<1>2. ASSUME NEW q \in Runs, CreateRun(q) PROVE WorldRow(r)
  BY <1>0, <1>2 DEF TypeOK, Row, CreateRun, WorldRow, IsActive, Active
<1>3. ASSUME NEW q \in Runs, RequestPause(q) PROVE WorldRow(r)
  <2>1. CASE r # q
    BY <1>0, <1>3, <2>1 DEF TypeOK, RequestPause, WorldRow
  <2>2. CASE r = q /\ IsActive(q)
    BY <1>0, <1>3, <2>2 DEF TypeOK, RequestPause, WorldRow
  <2>3. CASE r = q /\ ~ IsActive(q)
    <3>1. runs'[r] = [Disowned(runs[r]) EXCEPT !.status = "paused", !.pauseReq = FALSE]
      BY <1>0, <1>3, <2>3 DEF TypeOK, RequestPause
    <3>2. runs'[r].current = runs[r].current
      BY <1>0, <3>1 DEF Disowned, Row
    <3>3. QED BY <2>3, <3>2 DEF WorldRow
  <2>4. QED BY <2>1, <2>2, <2>3
<1>4. ASSUME NEW q \in Runs, RequestCancel(q) PROVE WorldRow(r)
  <2>1. CASE r # q
    BY <1>0, <1>4, <2>1 DEF TypeOK, RequestCancel, WorldRow
  <2>2. CASE r = q /\ IsActive(q)
    BY <1>0, <1>4, <2>2 DEF TypeOK, RequestCancel, WorldRow
  <2>3. CASE r = q /\ ~ IsActive(q)
    <3>1. runs'[r] = [Disowned(runs[r]) EXCEPT !.status = "cancelled", !.cancelReq = TRUE]
      BY <1>0, <1>4, <2>3 DEF TypeOK, RequestCancel
    <3>2. runs'[r].current = runs[r].current
      BY <1>0, <3>1 DEF Disowned, Row
    <3>3. QED BY <2>3, <3>2 DEF WorldRow
  <2>4. QED BY <2>1, <2>2, <2>3
<1>5. ASSUME NEW q \in Runs, Expire(q) PROVE WorldRow(r)
  BY <1>0, <1>5 DEF TypeOK, Expire, LeaseExpires, WorldRow
<1>6. CASE Query
  BY <1>6 DEF Query, Reconcile, ReconcileStaleRuns, Stale, WorldRow
<1>7. QED BY <1>1, <1>2, <1>3, <1>4, <1>5, <1>6 DEF Operator

LEMMA WorldKeepsControl ==
    ASSUME IInv, ControlInv, UNCHANGED ctl, \A r \in Runs : WorldRow(r)
    PROVE  ControlInv'
<1>1. ASSUME ~ ClockMayJump, NEW p \in Owners, NEW r \in Runs,
             ctl[p].pc \in Controlling, OwnedBy(r, p), runs[r].lease = "live"
      PROVE  OwnedBy(r, p)' /\ runs'[r].lease = "live"
  <2>0. runs[r] \in Row /\ runs[r].owner = p /\ IsActive(r) /\ WorldRow(r)
    BY <1>1 DEF IInv, RowsInv, TypeOK, OwnedBy
  <2>1. p \notin Crashed /\ ~ Unattended(r)
    BY <1>1, <2>0, PcSets DEF Crashed, Unattended, At, Gone
  <2>2. QED BY <1>1, <2>0, <2>1 DEF WorldRow, OwnedBy, IsActive, Row
<1>2. \A p \in Owners : ctl[p].pc \in Controlling => ctl[p].run \in Runs
  BY PcSets, EngagedFacts
<1>3. QED BY <1>1, <1>2 DEF ControlInv

LEMMA WorldKeepsPause ==
    ASSUME IInv, PauseInv, HistoryNext, UNCHANGED ctl,
           \A p \in Owners : Unaffected(p), \A r \in Runs : WorldRow(r)
    PROVE  PauseInv'
<1>1. ASSUME NEW r \in Runs PROVE ~ TaskStarted(r)
  <2>1. runs[r] \in Row /\ WorldRow(r)
    BY DEF IInv, RowsInv, TypeOK
  <2>2. Interrupted(runs[r]).current = 0
    BY <2>1 DEF Interrupted, Disowned, Row
  <2>3. QED BY <2>1, <2>2 DEF WorldRow, TaskStarted, Row
<1>2. \A r \in Runs : starts'[r] \in {0, starts[r]}
                      /\ (~ runs'[r].pauseReq => starts'[r] = 0)
  BY <1>1, StartsCount
<1>3. QED BY <1>2 DEF PauseInv, Unaffected

LEMMA NextControlOrWorld ==
    ASSUME IInv, Next
    PROVE  \/ \E o \in Owners : Moved(o) /\ Preserved(o)
           \/ /\ UNCHANGED ctl
              /\ \A p \in Owners : Unaffected(p)
              /\ \A r \in Runs : WorldRow(r)
<1>1. ASSUME NEW o \in Owners,
             \/ Step(o) \/ Raise(o) \/ Crash(o) \/ Restart(o)
             \/ \E r \in Runs, planOnly \in BOOLEAN : Launch(o, r, planOnly)
      PROVE  Moved(o) /\ Preserved(o)
  BY <1>1, StepMoves, DisturbanceMoves, StepIsPreserved, DisturbanceIsPreserved,
     LaunchIsPreserved
<1>2. ASSUME \/ \E o \in Owners : HeartbeatTick(o)
             \/ \E q \in Runs : Operator(q) \/ Expire(q)
             \/ Query
      PROVE  /\ UNCHANGED ctl
             /\ \A p \in Owners : Unaffected(p)
             /\ \A r \in Runs : WorldRow(r)
  <2>1. \A r \in Runs : WorldRow(r)
    BY <1>2, WorldRows
  <2>2. RowsInv
    BY DEF IInv
  <2>3. ASSUME NEW o \in Owners, HeartbeatTick(o)
        PROVE  (\A p \in Owners : Unaffected(p)) /\ UNCHANGED ctl
    <3>1. PICK q \in Runs : q = ctl[o].run
      BY <2>3, EngagedFacts DEF HeartbeatTick, Gone
    <3>2. Heartbeat(q, o) /\ UNCHANGED ctl
      BY <2>3, <3>1 DEF HeartbeatTick
    <3>3. QED BY <2>2, <3>2, TouchIsSound
  <2>4. ASSUME NEW q \in Runs, Operator(q) \/ Expire(q)
        PROVE  (\A p \in Owners : Unaffected(p)) /\ UNCHANGED ctl
    BY <2>2, <2>4, TouchIsSound DEF Operator, Expire
  <2>5. ASSUME Query
        PROVE  (\A p \in Owners : Unaffected(p)) /\ UNCHANGED ctl
    BY <2>2, <2>5, ReconcileStep DEF Query
  <2>6. QED BY <1>2, <2>1, <2>3, <2>4, <2>5
<1>3. QED BY <1>1, <1>2 DEF Next

HistoryInv == IInv /\ ControlInv /\ PauseInv

LEMMA InitHistoryInv == HistoryInit => HistoryInv
<1> SUFFICES ASSUME HistoryInit PROVE HistoryInv
  OBVIOUS
<1>1. IInv
  BY InitIInv DEF HistoryInit
<1>2. \A o \in Owners : ctl[o].pc = "idle"
  BY IdleIsLocals DEF HistoryInit, Init
<1>3. ControlInv /\ PauseInv
  BY <1>2 DEF HistoryInit, ControlInv, PauseInv, Controlling, InTry, NearStart
<1>4. QED BY <1>1, <1>3 DEF HistoryInv

LEMMA NextHistoryInv == HistoryInv /\ [HistoryNext]_hvars => HistoryInv'
<1>1. ASSUME HistoryInv, HistoryNext PROVE HistoryInv'
  <2>1. IInv /\ ControlInv /\ PauseInv /\ Next
    BY <1>1 DEF HistoryInv, HistoryNext
  <2>2. IInv'
    BY <2>1, NextIInv
  <2>3. ControlInv' /\ PauseInv'
    BY <1>1, <2>1, NextControlOrWorld, MoveKeepsControl, MoveKeepsPause,
       WorldKeepsControl, WorldKeepsPause
  <2>4. QED BY <2>2, <2>3 DEF HistoryInv
<1>2. ASSUME HistoryInv, UNCHANGED hvars PROVE HistoryInv'
  <2>1. UNCHANGED vars /\ UNCHANGED starts
    BY <1>2 DEF hvars, vars
  <2>2. IInv'
    BY <1>2, <2>1, NextIInv DEF HistoryInv
  <2>3. QED BY <1>2, <2>1, <2>2
        DEF HistoryInv, vars, ControlInv, PauseInv, OwnedBy, IsActive
<1>3. QED BY <1>1, <1>2

LEMMA HistoryIsExclusive == HistoryInv => ControlIsExclusive
<1>1. ASSUME HistoryInv PROVE ExclusiveExecution
  BY <1>1 DEF HistoryInv, ControlInv, ExclusiveExecution, Executing, Controlling, OwnedBy
<1>2. HistoryInv => PauseTakesEffect
  BY DEF HistoryInv, PauseInv, PauseTakesEffect
<1>3. QED BY <1>1, <1>2 DEF ControlIsExclusive

\* One controller executes a run at a time, as long as the leases of live owners
\* are renewed in time; and at most one task starts after a pause is requested,
\* whatever reconciliations, crashes and claims come between.
THEOREM ControllerIsExclusive == HistorySpec => []ControlIsExclusive
BY HistoryIsExclusive, InitHistoryInv, NextHistoryInv, PTL DEF HistorySpec

-----------------------------------------------------------------------------
\* The refinement: what AutopilotContract sees of a row, and the moves it
\* allows one row to make.

SameSeen(new, old) ==
    /\ new.owner = old.owner
    /\ new.cancelReq = old.cancelReq
    /\ LedgerOf(new) = LedgerOf(old)

ContractRow(new, old) ==
    \/ PhaseOf(new) = PhaseOf(old) /\ SameSeen(new, old)
    \/ PhaseOf(old) = "none" /\ PhaseOf(new) = "open" /\ SameSeen(new, old)
    \/ /\ PhaseOf(old) = "open" /\ PhaseOf(new) = "held"
       /\ ~ old.cancelReq
       /\ new.owner \in Owners
       /\ new.cancelReq = old.cancelReq /\ LedgerOf(new) = LedgerOf(old)
    \/ /\ PhaseOf(old) = "held" /\ PhaseOf(new) = "held"
       /\ ~ old.cancelReq
       /\ new.owner = old.owner /\ new.cancelReq = old.cancelReq
    \/ /\ PhaseOf(old) = "held"
       /\ PhaseOf(new) \in {"open", "completed", "ended"}
       /\ PhaseOf(new) = "completed" => CompletionGate(LedgerOf(old))
       /\ new.owner = NoOwner
       /\ new.cancelReq = old.cancelReq /\ LedgerOf(new) = LedgerOf(old)
    \/ /\ \/ PhaseOf(old) = "open" /\ PhaseOf(new) = "ended"
          \/ PhaseOf(old) = "held" /\ PhaseOf(new) = "held"
       /\ new.cancelReq
       /\ new.owner = old.owner /\ LedgerOf(new) = LedgerOf(old)

LEMMA PhaseOfStatus ==
    ASSUME NEW row
    PROVE  /\ row.status \in Active => PhaseOf(row) = "held"
           /\ row.status \in Resumable => PhaseOf(row) = "open"
           /\ row.status = "completed" => PhaseOf(row) = "completed"
           /\ row.status \in {"failed", "cancelled"} => PhaseOf(row) = "ended"
           /\ row.status = "absent" => PhaseOf(row) = "none"
BY DEF PhaseOf, Active, Resumable, Terminal

LEMMA LedgerOfSame ==
    ASSUME NEW new, NEW old, SameLedger(new, old)
    PROVE  /\ LedgerOf(new) = LedgerOf(old)
           /\ CompletionGate(new) <=> CompletionGate(LedgerOf(old))
BY DEF SameLedger, LedgerOf, CompletionGate

\* What a save keeps, beside the ledger it writes.
LEMMA SavedKeeps ==
    ASSUME NEW row \in Row, NEW u \in Updates
    PROVE  Saved(row, u).cancelReq = row.cancelReq
BY DEF Saved, Row

\* Every operation on a row is a move of the contract, if a row is only set
\* to completed with a ledger that passes the gate.
LEMMA RowStepIsContractRow ==
    ASSUME NEW r \in Runs, runs[r] \in Row, RowOwnership(runs[r]), RowStep(r),
           runs'[r].status = "completed" => CompletionGate(runs'[r])
    PROVE  ContractRow(runs'[r], runs[r])
<1> USE PhaseOfStatus
<1>1. CASE runs'[r] = runs[r]
  BY <1>1 DEF ContractRow, SameSeen
<1>2. CASE /\ runs[r].status = "absent"
           /\ runs'[r] = [runs[r] EXCEPT !.status = "ready"]
  <2>1. SameLedger(runs'[r], runs[r]) /\ runs'[r].status = "ready"
        /\ runs'[r].owner = runs[r].owner
        /\ runs'[r].cancelReq = runs[r].cancelReq
    BY <1>2 DEF SameLedger, Row
  <2>2. /\ LedgerOf(runs'[r]) = LedgerOf(runs[r])
        /\ PhaseOf(runs[r]) = "none" /\ PhaseOf(runs'[r]) = "open"
    BY <1>2, <2>1, LedgerOfSame DEF Resumable
  <2>3. QED BY <2>1, <2>2 DEF ContractRow, SameSeen
<1>3. CASE \E o \in Owners : CanClaim(r, o) /\ runs'[r] = Claimed(runs[r], o)
  <2>1. PICK o \in Owners : CanClaim(r, o) /\ runs'[r] = Claimed(runs[r], o)
    BY <1>3
  <2>2. /\ LedgerOf(runs'[r]) = LedgerOf(runs[r])
        /\ PhaseOf(runs'[r]) = "held"
        /\ runs'[r].owner = o /\ runs'[r].cancelReq = runs[r].cancelReq
    BY <2>1, ClaimedIsRow, LedgerOfSame
  <2>3. CASE IsActive(r)
    <3>1. runs[r].owner = o /\ PhaseOf(runs[r]) = "held"
      BY <2>1, <2>3 DEF CanClaim, IsActive
    <3>2. QED BY <2>2, <3>1 DEF ContractRow, SameSeen
  <2>4. CASE ~ IsActive(r)
    <3>1. runs[r].status \in Resumable /\ ~ runs[r].cancelReq
      BY <2>1, <2>4 DEF CanClaim, IsActive, Row, Statuses
    <3>2. QED BY <2>2, <3>1 DEF ContractRow
  <2>5. QED BY <2>3, <2>4
<1>4. CASE \E o \in Owners, u \in Updates :
              CanSave(r, o) /\ runs'[r] = Saved(runs[r], u)
  <2>1. PICK o \in Owners, u \in Updates :
              CanSave(r, o) /\ runs'[r] = Saved(runs[r], u)
    BY <1>4
  <2>2. runs[r].status \in Active /\ ~ runs[r].cancelReq
    BY <2>1 DEF CanSave, OwnedBy, IsActive
  <2>3. /\ runs'[r].status \in Active
        /\ runs'[r].owner = runs[r].owner
        /\ runs'[r].cancelReq = runs[r].cancelReq
    BY <2>1, <2>2, SavedIsRow, SavedKeeps DEF Active
  <2>4. QED BY <2>2, <2>3 DEF ContractRow
<1>5. CASE \/ /\ \E o \in Owners : OwnedBy(r, o)
              /\ runs'[r] = [runs[r] EXCEPT !.lease = "live"]
           \/ IsActive(r) /\ runs'[r] = [runs[r] EXCEPT !.pauseReq = TRUE]
           \/ /\ runs[r].lease = "live"
              /\ runs'[r] = [runs[r] EXCEPT !.lease = "expired"]
  <2>1. /\ SameLedger(runs'[r], runs[r]) /\ runs'[r].status = runs[r].status
        /\ runs'[r].owner = runs[r].owner
        /\ runs'[r].cancelReq = runs[r].cancelReq
    BY <1>5 DEF SameLedger, Row
  <2>2. PhaseOf(runs'[r]) = PhaseOf(runs[r])
    BY <2>1 DEF PhaseOf
  <2>3. QED BY <2>1, <2>2, LedgerOfSame DEF ContractRow, SameSeen
<1>6. CASE \E o \in Owners, s \in FinishStatuses :
              OwnedBy(r, o) /\ runs'[r] = Finished(runs[r], s)
  <2>1. PICK o \in Owners, s \in FinishStatuses :
              OwnedBy(r, o) /\ runs'[r] = Finished(runs[r], s)
    BY <1>6
  <2>2. PhaseOf(runs[r]) = "held"
    BY <2>1 DEF OwnedBy, IsActive
  <2>3. /\ SameLedger(runs'[r], runs[r]) /\ runs'[r].status = s
        /\ runs'[r].owner = NoOwner /\ runs'[r].cancelReq = runs[r].cancelReq
    BY <2>1, FinishedIsRow
  <2>4. PhaseOf(runs'[r]) \in {"open", "completed", "ended"}
    BY <2>3 DEF FinishStatuses, Terminal, Resumable
  <2>5. PhaseOf(runs'[r]) = "completed" => runs'[r].status = "completed"
    BY <2>3 DEF FinishStatuses, Terminal, Resumable
  <2>6. QED BY <2>2, <2>3, <2>4, <2>5, LedgerOfSame DEF ContractRow
<1>7. CASE IsActive(r) /\ runs'[r] = [runs[r] EXCEPT !.cancelReq = TRUE]
  <2>1. /\ SameLedger(runs'[r], runs[r]) /\ runs'[r].status = runs[r].status
        /\ runs'[r].owner = runs[r].owner /\ runs'[r].cancelReq
    BY <1>7 DEF SameLedger, Row
  <2>2. QED BY <1>7, <2>1, LedgerOfSame DEF ContractRow, IsActive
<1>8. CASE /\ runs[r].status \in Resumable
           /\ runs'[r] = [Disowned(runs[r]) EXCEPT !.status = "paused",
                                                   !.pauseReq = FALSE]
  <2>1. runs[r].owner = NoOwner
    BY <1>8 DEF RowOwnership, Active, Resumable
  <2>2. /\ SameLedger(runs'[r], runs[r]) /\ runs'[r].status = "paused"
        /\ runs'[r].owner = NoOwner /\ runs'[r].cancelReq = runs[r].cancelReq
    BY ZenonT(60), <1>8 DEF Disowned, Row, SameLedger
  <2>3. PhaseOf(runs'[r]) = "open" /\ PhaseOf(runs[r]) = "open"
    BY <1>8, <2>2 DEF Resumable
  <2>4. QED BY <2>1, <2>2, <2>3, LedgerOfSame DEF ContractRow, SameSeen
<1>9. CASE /\ runs[r].status \in Resumable
           /\ runs'[r] = [Disowned(runs[r]) EXCEPT !.status = "cancelled",
                                                   !.cancelReq = TRUE]
  <2>1. runs[r].owner = NoOwner
    BY <1>9 DEF RowOwnership, Active, Resumable
  <2>2. /\ SameLedger(runs'[r], runs[r]) /\ runs'[r].status = "cancelled"
        /\ runs'[r].owner = NoOwner /\ runs'[r].cancelReq
    BY ZenonT(60), <1>9 DEF Disowned, Row, SameLedger
  <2>3. PhaseOf(runs'[r]) = "ended" /\ PhaseOf(runs[r]) = "open"
    BY <1>9, <2>2
  <2>4. QED BY <2>1, <2>2, <2>3, LedgerOfSame DEF ContractRow
<1>10. CASE IsActive(r) /\ runs'[r] = Interrupted(runs[r])
  <2>1. /\ SameLedger(runs'[r], runs[r]) /\ runs'[r].status = "interrupted"
        /\ runs'[r].owner = NoOwner /\ runs'[r].cancelReq = runs[r].cancelReq
    BY <1>10, InterruptedIsRow
  <2>2. PhaseOf(runs'[r]) = "open" /\ PhaseOf(runs[r]) = "held"
    BY <1>10, <2>1 DEF Resumable, IsActive
  <2>3. QED BY <2>1, <2>2, LedgerOfSame DEF ContractRow
<1>11. QED
  BY <1>1, <1>2, <1>3, <1>4, <1>5, <1>6, <1>7, <1>8, <1>9, <1>10 DEF RowStep

\* One step changes one row at most, or interrupts the stale ones together.
OnlyRow(q) == \A r \in Runs \ {q} : runs'[r] = runs[r]

LEMMA NextChangesOneRow ==
    ASSUME IInv, Next
    PROVE  UNCHANGED runs \/ Reconcile \/ \E q \in Runs : OnlyRow(q)
<1>0. TypeOK
  BY DEF IInv, RowsInv
<1>1. ASSUME NEW o \in Owners, Moved(o)
      PROVE  UNCHANGED runs \/ Reconcile \/ \E q \in Runs : OnlyRow(q)
  <2>1. ASSUME NEW q \in Runs,
               \/ \E u \in Updates : SaveProgress(q, o, u)
               \/ \E s \in FinishStatuses : FinishRun(q, o, s)
               \/ ClaimRun(q, o)
        PROVE  OnlyRow(q)
    BY <1>0, <2>1 DEF TypeOK, SaveProgress, FinishRun, ClaimRun, OnlyRow
  <2>2. QED BY <1>1, <2>1 DEF Moved
<1>2. ASSUME NEW o \in Owners,
             \/ Step(o) \/ Raise(o) \/ Crash(o) \/ Restart(o)
             \/ \E r \in Runs, planOnly \in BOOLEAN : Launch(o, r, planOnly)
      PROVE  Moved(o)
  BY <1>2, StepMoves, DisturbanceMoves
<1>3. ASSUME NEW o \in Owners, HeartbeatTick(o)
      PROVE  \E q \in Runs : OnlyRow(q)
  <2>1. PICK q \in Runs : q = ctl[o].run
    BY <1>3, EngagedFacts DEF HeartbeatTick, Gone
  <2>2. Heartbeat(q, o)
    BY <1>3, <2>1 DEF HeartbeatTick
  <2>3. OnlyRow(q)
    BY <1>0, <2>2 DEF TypeOK, Heartbeat, OnlyRow
  <2>4. QED BY <2>3
<1>4. ASSUME NEW q \in Runs, Operator(q) \/ Expire(q)
      PROVE  OnlyRow(q)
  BY <1>0, <1>4
  DEF TypeOK, Operator, Expire, CreateRun, RequestPause, RequestCancel,
      LeaseExpires, OnlyRow
<1>5. Query => Reconcile
  BY DEF Query
<1>6. QED BY <1>1, <1>2, <1>3, <1>4, <1>5 DEF Next

\* The contract's variables before and after a step.
RunPhases == [r \in Runs |-> PhaseOf(runs[r])]
RunHolders == [r \in Runs |-> runs[r].owner]
RunFrozen == [r \in Runs |-> runs[r].cancelReq]
Committed == [r \in Runs |-> LedgerOf(runs[r])]

LEMMA UnseenIsStutter ==
    ASSUME \A r \in Runs : /\ PhaseOf(runs'[r]) = PhaseOf(runs[r])
                           /\ SameSeen(runs'[r], runs[r])
    PROVE  UNCHANGED Contract!vars
BY DEF Contract!vars, SameSeen

\* A row that makes a move of the contract while the others stand still.
LEMMA RowMoveIsContractStep ==
    ASSUME NEW q \in Runs, OnlyRow(q), ContractRow(runs'[q], runs[q])
    PROVE  [Contract!Next]_(Contract!vars)
<1> DEFINE new == runs'[q]
           old == runs[q]
<1>0. \A r \in Runs \ {q} : /\ PhaseOf(runs'[r]) = PhaseOf(runs[r])
                            /\ SameSeen(runs'[r], runs[r])
  BY DEF OnlyRow, SameSeen
<1>1. CASE PhaseOf(new) = PhaseOf(old) /\ SameSeen(new, old)
  BY <1>0, <1>1, UnseenIsStutter
<1>a. RunPhases' = [RunPhases EXCEPT ![q] = PhaseOf(new)]
  BY <1>0 DEF RunPhases
<1>b. new.owner = old.owner => UNCHANGED RunHolders
  BY <1>0 DEF RunHolders, SameSeen
<1>c. RunHolders' = [RunHolders EXCEPT ![q] = new.owner]
  BY <1>0 DEF RunHolders, SameSeen
<1>d. new.cancelReq = old.cancelReq => UNCHANGED RunFrozen
  BY <1>0 DEF RunFrozen, SameSeen
<1>e. RunFrozen' = [RunFrozen EXCEPT ![q] = new.cancelReq]
  BY <1>0 DEF RunFrozen, SameSeen
<1>f. LedgerOf(new) = LedgerOf(old) => UNCHANGED Committed
  BY <1>0 DEF Committed, SameSeen
<1>g. \A r \in Runs \ {q} : Committed'[r] = Committed[r]
  BY <1>0 DEF Committed, SameSeen
<1>h. /\ RunPhases[q] = PhaseOf(old) /\ RunHolders[q] = old.owner
      /\ RunFrozen[q] = old.cancelReq /\ Committed[q] = LedgerOf(old)
  BY DEF RunPhases, RunHolders, RunFrozen, Committed
<1>2. CASE PhaseOf(old) = "none" /\ PhaseOf(new) = "open" /\ SameSeen(new, old)
  <2>1. Contract!Create(q)
    BY <1>2, <1>a, <1>b, <1>d, <1>f, <1>h
    DEF Contract!Create, Contract!Move, SameSeen, RunPhases, RunHolders,
        RunFrozen, Committed
  <2>2. QED BY <2>1 DEF Contract!Next
<1>3. CASE /\ PhaseOf(old) = "open" /\ PhaseOf(new) = "held"
           /\ ~ old.cancelReq
           /\ new.owner \in Owners
           /\ new.cancelReq = old.cancelReq /\ LedgerOf(new) = LedgerOf(old)
  <2>1. PICK o \in Owners : o = new.owner
    BY <1>3
  <2>2. Contract!Take(q, o)
    BY <1>3, <2>1, <1>a, <1>c, <1>d, <1>f, <1>h
    DEF Contract!Take, Contract!Move, RunPhases, RunHolders, RunFrozen, Committed
  <2>3. QED BY <2>2 DEF Contract!Next
<1>4. CASE /\ PhaseOf(old) = "held" /\ PhaseOf(new) = "held"
           /\ ~ old.cancelReq
           /\ new.owner = old.owner /\ new.cancelReq = old.cancelReq
  <2>1. UNCHANGED RunPhases
    BY <1>0, <1>4 DEF RunPhases
  <2>2. Contract!Commit(q)
    BY <1>4, <2>1, <1>b, <1>d, <1>g, <1>h
    DEF Contract!Commit, RunPhases, RunHolders, RunFrozen, Committed
  <2>3. QED BY <2>2 DEF Contract!Next
<1>5. CASE /\ PhaseOf(old) = "held"
           /\ PhaseOf(new) \in {"open", "completed", "ended"}
           /\ PhaseOf(new) = "completed" => CompletionGate(LedgerOf(old))
           /\ new.owner = NoOwner
           /\ new.cancelReq = old.cancelReq /\ LedgerOf(new) = LedgerOf(old)
  <2>1. Contract!Vacate(q)
    BY <1>5, <1>c DEF Contract!Vacate, RunHolders
  <2>2. CASE PhaseOf(new) = "open"
    <3>1. /\ RunPhases' = [r \in Runs |-> IF r \in {q} THEN "open" ELSE RunPhases[r]]
          /\ RunHolders' = [r \in Runs |-> IF r \in {q} THEN NoOwner ELSE RunHolders[r]]
      BY <1>5, <2>2, <1>a, <1>c DEF RunPhases, RunHolders
    <3>2. Contract!Drop({q})
      BY <1>5, <3>1, <1>d, <1>f, <1>h
      DEF Contract!Drop, RunPhases, RunHolders, RunFrozen, Committed
    <3>3. {q} \in SUBSET Runs /\ q \in {q}
      OBVIOUS
    <3>4. Contract!LetGo(q)
      BY <3>2, <3>3 DEF Contract!LetGo
    <3>5. QED BY <3>4 DEF Contract!Next
  <2>3. CASE PhaseOf(new) = "completed"
    <3>1. Contract!Complete(q)
      BY <1>5, <2>1, <2>3, <1>a, <1>d, <1>f, <1>h
      DEF Contract!Complete, Contract!Move, RunPhases, RunFrozen, Committed
    <3>2. QED BY <3>1 DEF Contract!Next, Contract!LetGo
  <2>4. CASE PhaseOf(new) = "ended"
    <3>1. Contract!End(q)
      BY <1>5, <2>1, <2>4, <1>a, <1>d, <1>f, <1>h
      DEF Contract!End, Contract!Move, RunPhases, RunFrozen, Committed
    <3>2. QED BY <3>1 DEF Contract!Next, Contract!LetGo
  <2>5. QED BY <1>5, <2>2, <2>3, <2>4
<1>6. CASE /\ \/ PhaseOf(old) = "open" /\ PhaseOf(new) = "ended"
              \/ PhaseOf(old) = "held" /\ PhaseOf(new) = "held"
           /\ new.cancelReq
           /\ new.owner = old.owner /\ LedgerOf(new) = LedgerOf(old)
  <2>1. RunFrozen' = [RunFrozen EXCEPT ![q] = TRUE]
    BY <1>0, <1>6, <1>e
  <2>2. PhaseOf(new) = "held" => UNCHANGED RunPhases
    BY <1>0, <1>6 DEF RunPhases
  <2>3. Contract!Cancel(q)
    BY <1>6, <2>1, <2>2, <1>a, <1>b, <1>f, <1>h
    DEF Contract!Cancel, Contract!Move, RunPhases, RunHolders, RunFrozen, Committed
  <2>4. QED BY <2>3 DEF Contract!Next
<1>7. QED
  BY <1>1, <1>2, <1>3, <1>4, <1>5, <1>6 DEF ContractRow

\* A reconciliation lets go of every stale run in one step.
LEMMA ReconcileIsContractStep ==
    ASSUME TypeOK, NEW D \in SUBSET Owners, ReconcileStaleRuns(D)
    PROVE  [Contract!Next]_(Contract!vars)
<1>0. PICK R \in SUBSET Runs : R = Stale(D)
  BY DEF Stale
<1>1. \A r \in R : PhaseOf(runs[r]) = "held"
  BY <1>0, PhaseOfStatus DEF Stale, IsActive
<1>2. ASSUME NEW r \in R
      PROVE  /\ PhaseOf(runs'[r]) = "open" /\ runs'[r].owner = NoOwner
             /\ runs'[r].cancelReq = runs[r].cancelReq
             /\ LedgerOf(runs'[r]) = LedgerOf(runs[r])
  <2>1. runs[r] \in Row /\ runs'[r] = Interrupted(runs[r])
    BY <1>0 DEF TypeOK, ReconcileStaleRuns
  <2>2. /\ SameLedger(runs'[r], runs[r]) /\ runs'[r].status = "interrupted"
        /\ runs'[r].owner = NoOwner /\ runs'[r].cancelReq = runs[r].cancelReq
    BY <2>1, InterruptedIsRow
  <2>3. QED BY <2>2, PhaseOfStatus, LedgerOfSame DEF Resumable
<1>3. \A r \in Runs \ R : runs'[r] = runs[r]
  BY <1>0 DEF ReconcileStaleRuns
<1>4. CASE R = {}
  <2>1. \A r \in Runs : /\ PhaseOf(runs'[r]) = PhaseOf(runs[r])
                        /\ SameSeen(runs'[r], runs[r])
    BY <1>3, <1>4 DEF SameSeen
  <2>2. QED BY <2>1, UnseenIsStutter
<1>5. CASE R # {}
  <2>1. PICK q \in R : TRUE
    BY <1>5
  <2>2. RunPhases' = [r \in Runs |-> IF r \in R THEN "open" ELSE RunPhases[r]]
    BY <1>2, <1>3 DEF RunPhases
  <2>3. RunHolders' = [r \in Runs |-> IF r \in R THEN NoOwner ELSE RunHolders[r]]
    BY <1>2, <1>3 DEF RunHolders
  <2>4. UNCHANGED RunFrozen
    BY <1>2, <1>3 DEF RunFrozen
  <2>5. UNCHANGED Committed
    BY <1>2, <1>3 DEF Committed
  <2>6. \A r \in R : RunPhases[r] = "held"
    BY <1>1 DEF RunPhases
  <2>7. Contract!Drop(R)
    BY <2>2, <2>3, <2>4, <2>5, <2>6
    DEF Contract!Drop, RunPhases, RunHolders, RunFrozen, Committed
  <2>8. Contract!LetGo(q) /\ q \in Runs
    BY <2>1, <2>7 DEF Contract!LetGo
  <2>9. QED BY <2>8 DEF Contract!Next
<1>6. QED BY <1>4, <1>5

LEMMA NextIsContractStep ==
    ASSUME IInv, Next PROVE [Contract!Next]_(Contract!vars)
<1>1. TypeOK /\ IInv'
  BY NextIInv DEF IInv, RowsInv
<1>2. CASE UNCHANGED runs
  BY <1>2 DEF Contract!vars
<1>3. CASE Reconcile
  <2>1. PICK D \in SUBSET Crashed : ReconcileStaleRuns(D)
    BY <1>3 DEF Reconcile
  <2>2. D \in SUBSET Owners
    BY DEF Crashed
  <2>3. QED BY <1>1, <2>1, <2>2, ReconcileIsContractStep
<1>4. ASSUME NEW q \in Runs, OnlyRow(q)
      PROVE  [Contract!Next]_(Contract!vars)
  <2>1. RowStep(q) /\ runs[q] \in Row /\ RowOwnership(runs[q])
    BY NextIsRowStep
  <2>2. runs'[q].status = "completed" => CompletionGate(runs'[q])
    BY <1>1 DEF IInv, RowsInv, CompletionIsGrounded
  <2>3. ContractRow(runs'[q], runs[q])
    BY <2>1, <2>2, RowStepIsContractRow
  <2>4. QED BY <1>4, <2>3, RowMoveIsContractStep
<1>5. QED BY <1>2, <1>3, <1>4, NextChangesOneRow

\* The controllers over the store implement the contract: whatever they, the
\* operators, crashes and the clock do, a run is created, taken, committed to,
\* let go of, completed, ended or cancelled only as AutopilotContract allows
\* (the safety half of ImplementsContract).
THEOREM ControllerKeepsContract == Spec => Contract!Safety
<1>1. Init => Contract!Init
  <2>1. AbsentRow.status = "absent" /\ AbsentRow.owner = NoOwner
        /\ AbsentRow.cancelReq = FALSE
    BY DEF AbsentRow
  <2>2. PhaseOf(AbsentRow) = "none"
    BY <2>1, PhaseOfStatus
  <2>3. QED BY <2>1, <2>2 DEF Init, Contract!Init
<1>2. IInv /\ [Next]_vars => [Contract!Next]_(Contract!vars)
  <2>1. ASSUME UNCHANGED vars PROVE UNCHANGED Contract!vars
    BY <2>1 DEF vars, Contract!vars
  <2>2. QED BY <2>1, NextIsContractStep
<1>3. QED
  BY <1>1, <1>2, InitIInv, NextIInv, PTL DEF Spec, Contract!Safety
=============================================================================
