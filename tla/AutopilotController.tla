------------------------ MODULE AutopilotController ------------------------
(***************************************************************************)
(* execute_run of autopilot_controller.py, run by any number of            *)
(* controllers (one per invocation, in any process of the host) over the   *)
(* shared ledger of AutopilotStore.  Between two steps of a controller     *)
(* anything may happen: an operator pauses or cancels, another process     *)
(* reconciles, a lease runs out, the process dies.  So every store         *)
(* transaction and every read of the row is one step, and what Python      *)
(* computes between two of them belongs to the step that follows or        *)
(* precedes it.  Model calls (planner, workbench, reviewer) return any     *)
(* value the host accepts, or raise.                                       *)
(***************************************************************************)
EXTENDS AutopilotStore

CONSTANTS
    NoRun,                               \* an idle controller's run
    MaxFailures, MaxReplans,             \* budgets stored with the run
    MaxTotalCycles, MaxCheckpoints,      \* MAX_TOTAL_CYCLES, MAX_ADAPTIVE_...
    MaxCycles,                           \* cycle budget of one invocation
    Adaptive,                            \* adaptive checkpoints are on
    PlannerTasks,     \* task lists the planner proposes, by kind
    ReplanTasks,      \* replacement lists the reviewer proposes, by kind
    ClockMayJump      \* a lease may run out under an owner that is alive

VARIABLE ctl      \* what each controller invocation knows and does next

ASSUME ControllerAssumption ==
    /\ NoRun \notin Runs
    /\ MaxTasks # 0 /\ MaxFailures \in Nat \ {0} /\ MaxReplans \in Nat
    /\ MaxTotalCycles \in Nat \ {0} /\ MaxCheckpoints \in Nat
    /\ MaxCycles \in Nat \ {0}
    /\ Adaptive \in BOOLEAN /\ ClockMayJump \in BOOLEAN
    /\ \A kinds \in PlannerTasks \cup ReplanTasks : kinds \in Seq(Kinds)
    /\ <<>> \notin PlannerTasks

vars == <<runs, ctl>>

-----------------------------------------------------------------------------
\* The task ledger.

NewTask(kind) ==
    [kind |-> kind, status |-> "pending", attempts |-> 0, validated |-> FALSE]

NewTasks(kinds) == [i \in DOMAIN kinds |-> NewTask(kinds[i])]

Validates(kinds) == \E i \in DOMAIN kinds : kinds[i] = "validate"

Upto(kinds, n) == SubSeq(kinds, 1, IF Len(kinds) < n THEN Len(kinds) ELSE n)

\* normalize_plan: at most MaxTasks tasks, and a validation among them.
NormalizePlan(kinds) ==
    LET cut == Upto(kinds, MaxTasks)
    IN  NewTasks(IF Validates(cut)
                   THEN cut
                   ELSE Append(Upto(cut, MaxTasks - 1), "validate"))

Pending(plan) == {i \in DOMAIN plan : plan[i].status = "pending"}

\* i is the first pending task.
NextPending(plan, i) ==
    i \in Pending(plan) /\ \A j \in Pending(plan) : i <= j

HasRunning(plan) == \E i \in DOMAIN plan : plan[i].status = "running"

\* _repair_interrupted_tasks
Repaired(plan) ==
    [i \in DOMAIN plan |->
        IF plan[i].status = "running" THEN [plan[i] EXCEPT !.status = "pending"]
                                      ELSE plan[i]]

Started(plan, i) ==
    [plan EXCEPT
        ![i].status = "running",
        ![i].attempts = IF @ < AttemptCap THEN @ + 1 ELSE @]

\* What the host saw of one task's execution.
WorkResults == [tools : BOOLEAN, mutated : BOOLEAN, validated : BOOLEAN]

TaskPassed(work, kind) ==
    /\ work.tools
    /\ kind = "implement" => work.mutated
    /\ kind = "validate" => work.validated

Recorded(plan, i, work) ==
    [plan EXCEPT
        ![i].status = IF TaskPassed(work, plan[i].kind) THEN "passed" ELSE "failed",
        ![i].validated = plan[i].kind = "validate" /\ work.validated]

\* _completion_gate: a non-empty plan, nothing left over, a validation whose
\* receipt the host issued, and criteria to validate against.
CompletionGate(ledger) ==
    /\ ledger.plan # <<>>
    /\ \A i \in DOMAIN ledger.plan :
          ledger.plan[i].status \in {"passed", "superseded"}
    /\ \E i \in DOMAIN ledger.plan :
          /\ ledger.plan[i].kind = "validate"
          /\ ledger.plan[i].status = "passed"
          /\ ledger.plan[i].validated
    /\ ledger.criteria

\* _append_replan: the tasks in dropped are superseded, the new ones follow,
\* and a validation is added unless a live one remains.
Superseded(plan, dropped) ==
    [i \in DOMAIN plan |->
        IF i \in dropped THEN [plan[i] EXCEPT !.status = "superseded"]
                         ELSE plan[i]]

Room(plan) == MaxTasks - Len(plan)

StillValidates(plan, dropped, kinds) ==
    \/ Validates(kinds)
    \/ \E i \in DOMAIN plan \ dropped :
          plan[i].kind = "validate" /\ plan[i].status # "superseded"

Added(plan, dropped, kinds) ==
    LET fresh == Upto(kinds, Room(plan))
    IN  IF StillValidates(plan, dropped, fresh) THEN fresh
        ELSE IF Len(fresh) >= Room(plan)
               THEN [fresh EXCEPT ![Len(fresh)] = "validate"]
               ELSE Append(fresh, "validate")

\* Mutation: superseded tasks are removed instead of marked.
AppendReplanRemoving(plan, dropped, kinds) ==
    SubSeq(plan, 1, Len(plan) - Cardinality(dropped))
        \o NewTasks(Added(plan, dropped, kinds))

AppendReplan(plan, dropped, kinds) ==
    Superseded(plan, dropped) \o NewTasks(Added(plan, dropped, kinds))

\* No ValueError: asked says whether the reviewer named tasks at all, kinds
\* which of them were left once duplicates were skipped.
ReplanFits(plan, dropped, kinds, asked) ==
    /\ asked => Room(plan) > 0
    /\ kinds # <<>> => asked
    /\ Room(plan) > 0
       \/ StillValidates(plan, dropped, <<>>)
    /\ Added(plan, dropped, kinds) # <<>> \/ Pending(plan) \cap dropped # {}

-----------------------------------------------------------------------------
\* The controllers.

\* What execute_run's local `run` is read for after the step that fetched it.
Snapshot(row) ==
    [plan |-> row.plan, criteria |-> row.criteria, failures |-> row.failures,
     checkpoints |-> row.checkpoints, replans |-> row.replans]

\* Each pc at which control_flags is read, and where an undisturbed run goes.
AfterFlags ==
    [planning |-> "savePlan", loop |-> "reconcile", work |-> "record",
     preCheckpoint |-> "checkpoint", checkpoint |-> "checkpointDecide",
     failure |-> "failureDecide", completion |-> "completionDecide",
     final |-> "finalDecide"]

\* The readers that look at "lost" and "cancel" only.
IgnorePause == {"planning", "work", "final"}

\* Between the claim and the return: inside the try block.
InTry ==
    {"repair", "planning", "savePlan", "loop", "reconcile", "read",
     "startTask", "work", "record", "preCheckpoint", "checkpoint",
     "checkpointDecide", "checkpointStop", "failure", "failureDecide",
     "completion", "completionDecide", "finalReconcile", "finalRead",
     "final", "finalDecide", "finish"}

\* failReconcile and fail are the except block.
PCs == InTry \cup {"idle", "launched", "claim", "failReconcile", "fail", "crashed"}

IdleCtl ==
    [pc |-> "idle", run |-> NoRun, planOnly |-> FALSE, plan |-> <<>>, task |-> 0,
     snap |-> Snapshot(AbsentRow), invoked |-> 0, fin |-> "paused"]

At(o, pc) == ctl[o].pc = pc

Goto(o, pc) == ctl' = [ctl EXCEPT ![o].pc = pc]

\* Only finish_run(fin) is left to do.
GotoFinish(o, fin) == ctl' = [ctl EXCEPT ![o].pc = "finish", ![o].fin = fin]

Return(o) == ctl' = [ctl EXCEPT ![o] = IdleCtl]

\* Mutation: invoked_cycles <= max_cycles.
NextIterationLate(c) ==
    [c EXCEPT !.pc = IF c.invoked <= MaxCycles THEN "loop" ELSE "finalReconcile",
              !.plan = <<>>, !.task = 0]

\* The head of the while loop, whose locals are dead.
NextIteration(c) ==
    [c EXCEPT !.pc = IF c.invoked < MaxCycles THEN "loop" ELSE "finalReconcile",
              !.plan = <<>>, !.task = 0]

\* `run = save_progress(...) or run`: a save that finds no row changes nothing
\* and leaves the controller with the run it had.
Save(o, u) ==
    LET r == ctl[o].run
    IN  SaveProgress(r, o, u) \/ (~ CanSave(r, o) /\ UNCHANGED runs)

\* Mutation: the row save_progress returns is dropped.
SnapUnchanged(o) == ctl[o].snap

SnapAfterSave(o) ==
    IF CanSave(ctl[o].run, o) THEN Snapshot(runs'[ctl[o].run]) ELSE ctl[o].snap

\* finish_run(...) or run: whether or not it finds its row, the invocation ends.
Finish(o, s) ==
    LET r == ctl[o].run
    IN  /\ FinishRun(r, o, s) \/ (~ OwnedBy(r, o) /\ UNCHANGED runs)
        /\ Return(o)

\* Owners whose process id no longer runs: what a reconciliation may see dead.
\* It may miss any of them (the id was reused, another host, no permission).
Crashed == {o \in Owners : At(o, "crashed")}

\* Mutation: reconciliation takes any owner for dead.
ReconcileAnyOwner == \E D \in SUBSET Owners : ReconcileStaleRuns(D)

\* reconcile_stale_runs as a step of its own inside get_run and claim_run.
Reconcile == \E D \in SUBSET Crashed : ReconcileStaleRuns(D)

-----------------------------------------------------------------------------
\* autopilot_start and autopilot_resume: the row was just created or read as
\* resumable; the controller thread claims it some time later.
Launch(o, r, planOnly) ==
    /\ At(o, "idle")
    /\ \A q \in Runs : runs[q].owner # o     \* invocation ids are never reused
    /\ runs[r].status \in Resumable
    /\ planOnly => runs[r].status = "ready"
    /\ ctl' = [ctl EXCEPT ![o] =
                  [IdleCtl EXCEPT !.pc = "launched", !.run = r,
                                  !.planOnly = planOnly]]
    /\ UNCHANGED runs

ClaimReconcile(o) == At(o, "launched") /\ Reconcile /\ Goto(o, "claim")

\* Where a claimed run continues, given the plan the controller holds.
Resumed(c) ==
    IF c.plan = <<>> THEN [c EXCEPT !.pc = "planning"]
    ELSE IF c.planOnly THEN [c EXCEPT !.pc = "finish", !.fin = "paused"]
    ELSE NextIteration(c)

Claim(o) ==
    LET r == ctl[o].run
        c == [ctl[o] EXCEPT !.plan = runs[r].plan,
                            !.snap = Snapshot(runs[r])]
    IN  /\ At(o, "claim")
        /\ \/ /\ ClaimRun(r, o)
              /\ ctl' = [ctl EXCEPT ![o] =
                            IF HasRunning(c.plan) THEN [c EXCEPT !.pc = "repair"]
                                                  ELSE Resumed(c)]
           \/ /\ ~ CanClaim(r, o)
              /\ Return(o)
              /\ UNCHANGED runs

Repair(o) ==
    LET plan == Repaired(ctl[o].plan)
    IN  /\ At(o, "repair")
        /\ Save(o, [NullUpdate EXCEPT !.plan = plan, !.status = "running"])
        /\ ctl' = [ctl EXCEPT ![o] =
                      Resumed([@ EXCEPT !.plan = plan, !.snap = SnapAfterSave(o)])]

\* control_flags, and the checks that follow it.
ReadFlags(o) ==
    LET c == ctl[o]
        row == runs[c.run]
        paused == row.pauseReq /\ c.pc \notin IgnorePause
    IN  /\ c.pc \in DOMAIN AfterFlags
        /\ \/ row.owner # o /\ Goto(o, "failReconcile")
           \/ /\ row.owner = o /\ row.cancelReq
              /\ GotoFinish(o, "cancelled")
           \/ /\ row.owner = o /\ ~ row.cancelReq /\ paused
              /\ IF c.pc = "checkpoint"
                   THEN ctl' = [ctl EXCEPT ![o].pc = "checkpointStop",
                                           ![o].fin = "paused"]
                   ELSE GotoFinish(o, "paused")
           \/ /\ row.owner = o /\ ~ row.cancelReq /\ ~ paused
              /\ Goto(o, AfterFlags[c.pc])
        /\ UNCHANGED runs

SavePlan(o) ==
    /\ At(o, "savePlan")
    /\ \E kinds \in PlannerTasks :
          LET plan == NormalizePlan(kinds)
          IN  /\ Save(o, [NullUpdate EXCEPT !.plan = plan, !.criteria = TRUE,
                                            !.status = "running"])
              /\ ctl' = [ctl EXCEPT ![o] =
                            Resumed([@ EXCEPT !.plan = plan,
                                              !.snap = SnapAfterSave(o)])]

LoopReconcile(o) ==
    \/ At(o, "reconcile") /\ Reconcile /\ Goto(o, "read")
    \/ At(o, "finalReconcile") /\ Reconcile /\ Goto(o, "finalRead")
    \/ At(o, "failReconcile") /\ Reconcile /\ Goto(o, "fail")

\* The row as get_run returns it at the head of a cycle: the cycle ceiling,
\* then the next pending task or the completion review.
ReadRun(o) ==
    LET row == runs[ctl[o].run]
        c == [ctl[o] EXCEPT !.snap = Snapshot(row)]
        Continue(d) == ctl' = [ctl EXCEPT ![o] = d]
    IN  /\ At(o, "read")
        /\ \/ /\ row.cycles >= MaxTotalCycles
              /\ Continue([c EXCEPT !.pc = "finish", !.fin = "blocked"])
           \/ /\ row.cycles < MaxTotalCycles
              /\ Pending(row.plan) = {}
              /\ Continue([c EXCEPT !.pc = "completion"])
           \/ /\ row.cycles < MaxTotalCycles
              /\ \E i \in Pending(row.plan) :
                    /\ NextPending(row.plan, i)
                    /\ Continue([c EXCEPT !.pc = "startTask",
                                          !.plan = row.plan, !.task = i])
        /\ UNCHANGED runs

StartTask(o) ==
    LET plan == Started(ctl[o].plan, ctl[o].task)
    IN  /\ At(o, "startTask")
        /\ Save(o, [NullUpdate EXCEPT !.plan = plan, !.status = "running",
                                      !.current = ctl[o].task])
        /\ ctl' = [ctl EXCEPT ![o].pc = "work", ![o].plan = plan,
                              ![o].snap = SnapAfterSave(o)]

\* An evidence checkpoint follows a discovery task while tasks are pending.
ShouldCheckpoint(kind, snap) ==
    /\ Adaptive
    /\ kind \in {"inspect", "research"}
    /\ Pending(snap.plan) # {}
    /\ snap.checkpoints < MaxCheckpoints

RecordResult(o) ==
    /\ At(o, "record")
    /\ \E work \in WorkResults :
          LET i == ctl[o].task
              kind == ctl[o].plan[i].kind
              passed == TaskPassed(work, kind)
              plan == Recorded(ctl[o].plan, i, work)
              c == [ctl[o] EXCEPT !.plan = plan, !.snap = SnapAfterSave(o),
                                  !.invoked = @ + 1]
          IN  /\ Save(o, [NullUpdate EXCEPT
                             !.plan = plan, !.current = 0, !.cycles = 1,
                             !.failures = IF passed THEN 0 ELSE 1])
              /\ ctl' = [ctl EXCEPT ![o] =
                    IF passed /\ ShouldCheckpoint(kind, c.snap)
                      THEN [c EXCEPT !.pc = "preCheckpoint"]
                    ELSE IF passed THEN NextIteration(c)
                    ELSE IF c.snap.failures >= MaxFailures
                      THEN [c EXCEPT !.pc = "finish", !.fin = "blocked"]
                    ELSE [c EXCEPT !.pc = "failure"]]

\* A save after which the loop goes on.
SaveAndIterate(o, u) ==
    /\ Save(o, u)
    /\ ctl' = [ctl EXCEPT ![o] =
                  NextIteration([@ EXCEPT !.snap = SnapAfterSave(o)])]

\* Mutation: the replan budget is compared with > instead of >=.
SaveReplanLate(o, dropped, checkpoints) ==
    LET c == ctl[o]
    IN  /\ c.snap.replans <= MaxReplans
        /\ \E kinds \in ReplanTasks \cup {<<>>}, asked \in BOOLEAN :
              /\ asked \/ checkpoints = 1
              /\ ReplanFits(c.snap.plan, dropped, kinds, asked)
              /\ SaveAndIterate(o, [NullUpdate EXCEPT
                    !.plan = AppendReplan(c.snap.plan, dropped, kinds),
                    !.replans = 1, !.checkpoints = checkpoints])

\* The reviewer replaces the tasks in dropped: an accepted replan is saved
\* and counted, one over budget or refused by the host blocks the run.
SaveReplan(o, dropped, checkpoints) ==
    LET c == ctl[o]
    IN  /\ c.snap.replans < MaxReplans
        /\ \E kinds \in ReplanTasks \cup {<<>>}, asked \in BOOLEAN :
              /\ asked \/ checkpoints = 1    \* or pending tasks were named stale
              /\ ReplanFits(c.snap.plan, dropped, kinds, asked)
              /\ SaveAndIterate(o, [NullUpdate EXCEPT
                    !.plan = AppendReplan(c.snap.plan, dropped, kinds),
                    !.replans = 1, !.checkpoints = checkpoints])

CheckpointDecide(o) ==
    /\ At(o, "checkpointDecide")
    /\ \/ \E stale \in (SUBSET Pending(ctl[o].snap.plan)) \ {{}} :
             SaveReplan(o, stale, 1)
       \/ SaveAndIterate(o, [NullUpdate EXCEPT !.checkpoints = 1])
       \/ /\ \E s \in {"paused", "blocked"} :
                ctl' = [ctl EXCEPT ![o].pc = "checkpointStop", ![o].fin = s]
          /\ UNCHANGED runs

CheckpointStop(o) ==
    /\ At(o, "checkpointStop")
    /\ Save(o, [NullUpdate EXCEPT !.checkpoints = 1])
    /\ ctl' = [ctl EXCEPT ![o].pc = "finish", ![o].snap = SnapAfterSave(o)]

FailureDecide(o) ==
    LET c == ctl[o]
    IN  /\ At(o, "failureDecide")
        /\ \/ /\ c.plan[c.task].attempts < AttemptCap
              /\ SaveAndIterate(o, [NullUpdate EXCEPT
                    !.plan = [c.plan EXCEPT ![c.task].status = "pending"]])
           \/ SaveReplan(o, {c.task}, 0)
           \/ \E s \in {"paused", "blocked"} : Finish(o, s)

\* Mutation: the reviewer's word is enough.
ReviewerCompletes(o) ==
    /\ At(o, "completionDecide")
    /\ \/ \E s \in {"completed", "paused", "blocked"} : Finish(o, s)
       \/ SaveReplan(o, {}, 0)

CompletionDecide(o) ==
    /\ At(o, "completionDecide")
    /\ \/ CompletionGate(ctl[o].snap) /\ Finish(o, "completed")
       \/ SaveReplan(o, {}, 0)
       \/ \E s \in {"paused", "blocked"} : Finish(o, s)

\* After the last cycle of the invocation's budget.
FinalRead(o) ==
    LET row == runs[ctl[o].run]
    IN  /\ At(o, "finalRead")
        /\ ctl' = [ctl EXCEPT ![o].snap = Snapshot(row),
                              ![o].fin = "paused",
                              ![o].pc = IF Pending(row.plan) = {} THEN "final"
                                                                  ELSE "finish"]
        /\ UNCHANGED runs

FinalDecide(o) ==
    /\ At(o, "finalDecide")
    /\ \/ CompletionGate(ctl[o].snap) /\ Finish(o, "completed")
       \/ Finish(o, "paused")

FinishFlagged(o) == At(o, "finish") /\ Finish(o, ctl[o].fin)

FailSafely(o) == At(o, "fail") /\ Finish(o, "failed")

\* A model call, the host's validation of its answer or the database raises.
\* In the except block, or before the claim, nothing catches it.
Raise(o) ==
    /\ \/ ctl[o].pc \in InTry /\ Goto(o, "failReconcile")
       \/ ctl[o].pc \in {"launched", "claim", "failReconcile", "fail"} /\ Return(o)
    /\ UNCHANGED runs

-----------------------------------------------------------------------------
\* The rest of the world.

Crash(o) ==
    /\ ~ At(o, "crashed")
    /\ ~ At(o, "idle") \/ \E r \in Runs : runs[r].owner = o
    /\ ctl' = [ctl EXCEPT ![o] = [IdleCtl EXCEPT !.pc = "crashed"]]
    /\ UNCHANGED runs

Restart(o) ==
    /\ At(o, "crashed")
    /\ \A r \in Runs : runs[r].owner # o
    /\ Return(o)
    /\ UNCHANGED runs

\* _autopilot_heartbeat, a daemon thread of the owner's process.
HeartbeatTick(o) ==
    /\ ctl[o].pc \notin {"idle", "crashed"}
    /\ Heartbeat(ctl[o].run, o)
    /\ UNCHANGED ctl

Unattended(r) == \A o \in Owners : runs[r].owner = o => ctl[o].pc \in {"idle", "crashed"}

Expire(r) ==
    /\ ClockMayJump \/ Unattended(r)
    /\ LeaseExpires(r)
    /\ UNCHANGED ctl

\* Any status query or other claim in any process.
Query == Reconcile /\ UNCHANGED ctl

Operator(r) == (CreateRun(r) \/ RequestPause(r) \/ RequestCancel(r)) /\ UNCHANGED ctl

Step(o) ==
    \/ ClaimReconcile(o) \/ Claim(o) \/ Repair(o) \/ ReadFlags(o) \/ SavePlan(o)
    \/ LoopReconcile(o) \/ ReadRun(o) \/ StartTask(o) \/ RecordResult(o)
    \/ CheckpointDecide(o) \/ CheckpointStop(o) \/ FailureDecide(o)
    \/ CompletionDecide(o) \/ FinalRead(o) \/ FinalDecide(o)
    \/ FinishFlagged(o) \/ FailSafely(o)

Init ==
    /\ runs = [r \in Runs |-> AbsentRow]
    /\ ctl = [o \in Owners |-> IdleCtl]

Next ==
    \/ \E o \in Owners :
          \/ Step(o)
          \/ Raise(o)
          \/ Crash(o)
          \/ Restart(o)
          \/ HeartbeatTick(o)
          \/ \E r \in Runs, planOnly \in BOOLEAN : Launch(o, r, planOnly)
    \/ \E r \in Runs : Operator(r) \/ Expire(r)
    \/ Query

Spec == Init /\ [][Next]_vars

\* A live controller thread is scheduled and its model calls return (they have
\* timeouts); the clock passes the lease of an owner that stopped renewing it,
\* and somebody queries the ledger now and then.  Nothing is assumed of
\* operators, errors, crashes and restarts.
Fairness ==
    /\ \A o \in Owners : WF_vars(Step(o))
    /\ \A r \in Runs : WF_vars(Unattended(r) /\ Expire(r))
    /\ WF_vars(Query)

FairSpec == Spec /\ Fairness

-----------------------------------------------------------------------------
\* The ledger's schema, and what each local of execute_run ranges over.
ControllerTypeOK ==
    /\ TypeOK
    /\ ctl \in [Owners ->
          [pc : PCs, run : Runs \cup {NoRun}, planOnly : BOOLEAN,
           plan : Seq(Task), task : 0..MaxTasks,
           snap : [plan : Seq(Task), criteria : BOOLEAN, failures : Nat,
                   checkpoints : Nat, replans : Nat],
           invoked : 0..MaxCycles, fin : FinishStatuses]]

\* A controller rewrites the whole plan from its own copy.  While the row still
\* names it as the owner that copy is the stored ledger, whatever pauses,
\* cancels, reconciliations and other controllers did since it was read: no
\* save overwrites a result it has not seen, and every budget and gate
\* decision is taken on the stored counters.
SnapshotFresh ==
    \A o \in Owners :
        ctl[o].run # NoRun /\ OwnedBy(ctl[o].run, o) /\ ~ At(o, "claim")
            => ctl[o].snap = Snapshot(runs[ctl[o].run])

\* A run is reported completed only with a ledger that passes the host's gate:
\* the reviewer alone never completes a run, and neither a replan nor a
\* stale copy between gate and commit completes one that left work undone.
CompletionIsGrounded ==
    \A r \in Runs : runs[r].status = "completed" => CompletionGate(runs[r])

\* The budgets of a run hold across any number of invocations, crashes and
\* resumes: cycles, adaptive checkpoints, replans and the size of the plan.
WithinBudgets ==
    \A r \in Runs :
        /\ runs[r].cycles <= MaxTotalCycles
        /\ runs[r].failures <= runs[r].cycles
        /\ runs[r].checkpoints <= MaxCheckpoints
        /\ runs[r].replans <= MaxReplans
        /\ Len(runs[r].plan) <= MaxTasks

\* Every plan that was accepted keeps a validation task that is not superseded,
\* so no sequence of replans can talk the run out of validating its objective.
ValidationSurvives ==
    \A r \in Runs : runs[r].plan # <<>> =>
        \E i \in DOMAIN runs[r].plan :
            runs[r].plan[i].kind = "validate" /\ runs[r].plan[i].status # "superseded"

\* Replans neither outgrow the run's budgets nor lose its validation.
ReplansAreBounded == WithinBudgets /\ ValidationSurvives

\* Superseded tasks stay in the audit ledger: tasks are only appended, and one
\* that passed or was superseded never changes again.
AuditLedger ==
    [][\A r \in Runs :
          LET old == runs[r].plan
              new == runs'[r].plan
          IN  /\ Len(old) <= Len(new)
              /\ \A i \in DOMAIN old :
                    /\ new[i].kind = old[i].kind
                    /\ old[i].status \in {"passed", "superseded"} => new[i] = old[i]]_vars

\* While leases of live owners are renewed in time, one run is never executed
\* by two controllers at once: a new claim succeeds only after the previous
\* owner left execute_run or its process died.
Executing(o, r) ==
    ctl[o].run = r /\ ctl[o].pc \in InTry \cup {"failReconcile", "fail"}

ExclusiveExecution ==
    ~ ClockMayJump =>
        \A r \in Runs, o1, o2 \in Owners :
            Executing(o1, r) /\ Executing(o2, r) => o1 = o2

\* No run stays in execution for ever: its controller ends the invocation, or
\* died or gave up and its lease is reconciled.
RunsAreReleased == \A r \in Runs : IsActive(r) ~> ~ IsActive(r)

\* Every invocation that was launched returns to its caller or dies.
InvocationsEnd ==
    \A o \in Owners : ~ At(o, "idle") ~> ctl[o].pc \in {"idle", "crashed"}
=============================================================================
