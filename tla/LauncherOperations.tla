------------------------- MODULE LauncherOperations -------------------------
(***************************************************************************)
(* sonder_launcher.py: start, stop and restart requests for the server of  *)
(* this host.  A launcher records an operation and takes the one operation *)
(* lock; a worker thread runs its command lines, each in a process tree    *)
(* behind a gate (sonder_headless.py); any launcher recovers the operation *)
(* of another that died, or that is past its hard deadline.  A step ends   *)
(* at the next database transaction or at the next thing done to a tree.   *)
(***************************************************************************)
EXTENDS ProcessLiveness, FiniteSets

CONSTANTS
    Launchers,      \* the processes that are launchers
    MaxOps,         \* bound: operations, numbered as they are created
    MaxMishaps      \* bound: errors of the database or of the system

ASSUME LauncherAssumption ==
    /\ Launchers \subseteq Instances /\ Launchers # {}
    /\ MaxOps \in Nat /\ MaxMishaps \in Nat

VARIABLES
    created,        \* operations submitted so far
    rows,           \* sonder_launcher_operations
    holder,         \* sonder_launcher_operation_lock: an operation, or 0
    late,           \* whether the holder's hard_deadline has passed
    trees,          \* the processes of each operation's latest command
    workers,        \* the thread of each operation
    recovery,       \* what recover_interrupted has read in each launcher
    mishaps

launcherVars ==
    <<life, created, rows, holder, late, trees, workers, recovery, mishaps>>

Ops == 1..MaxOps
Commands == 1..2              \* a restart is a stop and a start

ActivePhases == {"queued", "running"}
EndedPhases == {"succeeded", "failed", "interrupted"}

\* The command last recorded (control_pid and its identity), and whether
\* its exit code was.
Row == [phase : {"none"} \cup ActivePhases \cup EndedPhases,
        owner : Launchers, control : {0} \cup Commands, exited : BOOLEAN]

\* A root process that waits at the gate, or runs; one that ended well, what
\* it started being detached; one that failed and left others; nothing.
TreeStates == {"none", "gated", "running", "succeeded", "left"}
Tree == [command : Commands, state : TreeStates]
NoTree == [command |-> 1, state |-> "none"]

Ungated == {"running", "left"}

Worker == [pc : {"none", "start", "spawn", "record", "gate", "wait", "abort",
                 "exit", "finish", "ended"},
           command : Commands, verdict : EndedPhases]

NoRecovery == [op |-> 0, control |-> 0]

Recovery == [op : {0} \cup Ops, control : {0} \cup Commands]

\* The control columns of an ended row are not read again.
Ended(row, phase) == [row EXCEPT !.phase = phase, !.control = 0,
                                 !.exited = FALSE]

Thread(pc) == [pc |-> pc, command |-> 1, verdict |-> "failed"]

LauncherInit ==
    /\ LifeInit
    /\ created = 0
    /\ rows = [o \in Ops |->
          [phase |-> "none", owner |-> CHOOSE l \in Launchers : TRUE,
           control |-> 0, exited |-> FALSE]]
    /\ holder = 0 /\ late = FALSE
    /\ trees = [o \in Ops |-> NoTree]
    /\ workers = [o \in Ops |-> Thread("none")]
    /\ recovery = [l \in Launchers |-> NoRecovery]
    /\ mishaps = 0

AtWork(o, pc) == life[rows[o].owner] = "up" /\ workers[o].pc = pc

WorkerTo(o, pc) == workers' = [workers EXCEPT ![o].pc = pc]

EndWith(o, verdict) ==
    workers' = [workers EXCEPT ![o] = [pc |-> "finish", command |-> 1,
                                       verdict |-> verdict]]

Mishap == mishaps < MaxMishaps /\ mishaps' = mishaps + 1

EndThread(o) == workers' = [workers EXCEPT ![o] = Thread("ended")]

TreeTo(o, state) == trees' = [trees EXCEPT ![o].state = state]

\* A tree that ended well is not there to be stopped.
Stop(o) == [trees EXCEPT ![o] = IF @.state = "succeeded" THEN @ ELSE NoTree]

\* The condition under which a worker's transactions update its row.
Owns(o) == holder = o /\ rows[o].phase = "running"

-----------------------------------------------------------------------------
\* submit: the insertion and the lock are one transaction.  A lock that is
\* held answers with a conflict, an idempotency key that is known with its
\* operation, active or ended, as long as retention keeps its row.
Submit(l) ==
    /\ life[l] = "up" /\ created < MaxOps /\ holder = 0
    /\ LET o == created + 1
       IN  /\ created' = o /\ holder' = o
           /\ rows' = [rows EXCEPT ![o] =
                 [phase |-> "queued", owner |-> l, control |-> 0, exited |-> FALSE]]
           /\ late' = FALSE /\ workers' = [workers EXCEPT ![o] = Thread("start")]
    /\ UNCHANGED <<life, trees, recovery, mishaps>>

\* The thread starts, and _operation_worker makes queued running if the
\* lock is still held; or the thread cannot be started.
StartWorker(o) ==
    /\ AtWork(o, "start")
    /\ \/ /\ holder = o /\ rows[o].phase = "queued" /\ UNCHANGED mishaps
          /\ rows' = [rows EXCEPT ![o].phase = "running"]
          /\ WorkerTo(o, "spawn")
       \/ /\ ~ (holder = o /\ rows[o].phase = "queued")
          /\ EndThread(o) /\ UNCHANGED <<rows, mishaps>>
       \/ Mishap /\ EndWith(o, "interrupted") /\ UNCHANGED rows
    /\ UNCHANGED <<life, created, holder, late, trees, recovery>>

InCommand == {"record", "gate", "wait", "abort", "exit"}

\* action() runs under the launcher's lock.
InAction(o) ==
    \/ workers[o].pc \in InCommand
    \/ workers[o].pc = "spawn" /\ workers[o].command = 2

Alone(o) ==
    \A other \in 1..created \ {o} :
        rows[other].owner = rows[o].owner => ~ InAction(other)

\* A foreign listener, or a server that runs already, ends it at once.
Needless(o) ==
    /\ AtWork(o, "spawn") /\ workers[o].command = 1 /\ Alone(o)
    /\ \E verdict \in {"succeeded", "failed"} : EndWith(o, verdict)
    /\ UNCHANGED <<life, created, rows, holder, late, trees, recovery, mishaps>>

\* _run: the child waits at its gate; it may also not start, and its output
\* reader or its identity may be missing.
Spawn(o) ==
    /\ AtWork(o, "spawn") /\ Alone(o)
    /\ \/ /\ \/ WorkerTo(o, "record") /\ UNCHANGED mishaps
             \/ WorkerTo(o, "abort") /\ Mishap
          /\ trees' = [trees EXCEPT ![o] =
                [command |-> workers[o].command, state |-> "gated"]]
       \/ Mishap /\ EndWith(o, "failed") /\ UNCHANGED trees
    /\ UNCHANGED <<life, created, rows, holder, late, recovery>>

\* _persist_control_started.
RecordControl(o) ==
    /\ AtWork(o, "record")
    /\ \/ /\ Owns(o)
          /\ rows' = [rows EXCEPT ![o].control = workers[o].command,
                                  ![o].exited = FALSE]
          /\ WorkerTo(o, "gate") /\ UNCHANGED mishaps
       \/ ~ Owns(o) /\ WorkerTo(o, "abort") /\ UNCHANGED <<rows, mishaps>>
       \/ Mishap /\ WorkerTo(o, "abort") /\ UNCHANGED rows
    /\ UNCHANGED <<life, created, holder, late, trees, recovery>>

\* Writing to the gate fails when the child has gone.
OpenGate(o) ==
    /\ AtWork(o, "gate")
    /\ IF trees[o].state = "gated"
       THEN TreeTo(o, "running") /\ WorkerTo(o, "wait")
       ELSE WorkerTo(o, "abort") /\ UNCHANGED trees
    /\ UNCHANGED <<life, created, rows, holder, late, recovery, mishaps>>

\* process.wait: an exit with code 0; or one with another code, or the
\* timeout, and then _terminate_control_tree.
Await(o) ==
    /\ AtWork(o, "wait")
    /\ trees' = [trees EXCEPT ![o] = NoTree]
    /\ workers' = [workers EXCEPT ![o].pc = "exit", ![o].verdict =
          IF trees[o].state = "succeeded" THEN "succeeded" ELSE "failed"]
    /\ UNCHANGED <<life, created, rows, holder, late, recovery, mishaps>>

\* A command that could not be started as it should is terminated.
AbortCommand(o) ==
    /\ AtWork(o, "abort")
    /\ trees' = Stop(o) /\ EndWith(o, "failed")
    /\ UNCHANGED <<life, created, rows, holder, late, recovery, mishaps>>

\* ControlTreeNotStopped: the row stays active and the lock stays held.
TreeNotStopped(o) ==
    /\ AtWork(o, "abort") \/ AtWork(o, "wait")
    /\ trees[o].state # "succeeded"
    /\ Mishap /\ EndThread(o)
    /\ UNCHANGED <<life, created, rows, holder, late, trees, recovery>>

\* After _wait_for_state: the second command of a restart, or the end.
Continue(o) ==
    \/ /\ workers[o].verdict = "succeeded" /\ workers[o].command = 1
       /\ workers' = [workers EXCEPT ![o] =
                         [Thread("spawn") EXCEPT !.command = 2]]
    \/ \E verdict \in {"failed", workers[o].verdict} : EndWith(o, verdict)

\* _persist_control_finished; a lost lock ends the worker as above.
RecordExit(o) ==
    /\ AtWork(o, "exit")
    /\ \/ /\ Owns(o) /\ rows[o].control = workers[o].command
          /\ rows' = [rows EXCEPT ![o].exited = TRUE]
          /\ Continue(o) /\ UNCHANGED mishaps
       \/ ~ Owns(o) /\ EndThread(o) /\ UNCHANGED <<rows, mishaps>>
       \/ Mishap /\ EndWith(o, "failed") /\ UNCHANGED rows
    /\ UNCHANGED <<life, created, holder, late, trees, recovery>>

\* _finish_operation; the row and the lock change together or not at all.
FinishOperation(o) ==
    /\ AtWork(o, "finish")
    /\ IF holder = o /\ rows[o].phase \in ActivePhases
       THEN /\ rows' = [rows EXCEPT ![o] = Ended(@, workers[o].verdict)]
            /\ holder' = 0
       ELSE UNCHANGED <<rows, holder>>
    /\ EndThread(o)
    /\ UNCHANGED <<life, created, late, trees, recovery, mishaps>>

\* The retries and the emergency transaction fail too.
FinishFails(o) ==
    /\ AtWork(o, "finish") /\ Mishap /\ EndThread(o)
    /\ UNCHANGED <<life, created, rows, holder, late, trees, recovery>>

-----------------------------------------------------------------------------
\* recover_interrupted, with which every status query and submission begins.

SamePid(l, o) == PidOf[rows[o].owner] = PidOf[l]

\* Mutation: only a dead owner or worker makes an operation stale.
StaleWhenOrphaned(l, o) ==
    \/ \A i \in Instances :
          PidOf[i] = PidOf[rows[o].owner] => life[i] # "up"
    \/ SamePid(l, o) /\ (rows[o].owner = l =>
                            workers[o].pc \in {"start", "ended"})

\* _operation_stale.  The owner is known by its process id alone; a thread
\* that is slow to start may be taken for one that has ended.
StaleOperation(l, o) ==
    \/ late
    \/ \A i \in Instances :
          PidOf[i] = PidOf[rows[o].owner] => life[i] # "up"
    \/ SamePid(l, o) /\ (rows[o].owner = l =>
                            workers[o].pc \in {"start", "ended"})

CanRecover(l) ==
    /\ life[l] = "up" /\ recovery[l] = NoRecovery
    /\ holder # 0 /\ StaleOperation(l, holder)

\* Read the lock and its row, and _terminate_control_tree of what the row
\* recorded; without a record, or with an exit code, nothing is there to stop.
StopRecordedTree(l) ==
    /\ CanRecover(l)
    /\ LET row == rows[holder]
       IN  /\ recovery' = [recovery EXCEPT ![l] =
                              [op |-> holder, control |-> row.control]]
           /\ trees' = IF trees[holder].command = row.control /\ ~ row.exited
                       THEN Stop(holder) ELSE trees
    /\ UNCHANGED <<life, created, rows, holder, late, workers, mishaps>>

\* Mutation: the control process is not compared with the one stopped.
InterruptUnchecked(l) ==
    /\ life[l] = "up" /\ recovery[l] # NoRecovery
    /\ LET o == recovery[l].op
       IN  IF holder = o /\ rows[o].phase \in ActivePhases
           THEN /\ rows' = [rows EXCEPT ![o] = Ended(@, "interrupted")]
                /\ holder' = 0
           ELSE UNCHANGED <<rows, holder>>
    /\ recovery' = [recovery EXCEPT ![l] = NoRecovery]
    /\ UNCHANGED <<life, created, late, trees, workers, mishaps>>

\* _interrupt_recovered_operation, if nothing it relied on has changed.
InterruptRecovered(l) ==
    /\ life[l] = "up" /\ recovery[l] # NoRecovery
    /\ LET o == recovery[l].op
       IN  IF /\ holder = o /\ rows[o].phase \in ActivePhases
              /\ rows[o].control = recovery[l].control
           THEN /\ rows' = [rows EXCEPT ![o] = Ended(@, "interrupted")]
                /\ holder' = 0
           ELSE UNCHANGED <<rows, holder>>
    /\ recovery' = [recovery EXCEPT ![l] = NoRecovery]
    /\ UNCHANGED <<life, created, late, trees, workers, mishaps>>

-----------------------------------------------------------------------------
\* The environment.

\* A command ends well, fails and leaves processes, or is all gone; a child
\* whose launcher died reads the end of its gate.
CommandEnds(o) ==
    /\ \/ /\ trees[o].state = "running" /\ UNCHANGED mishaps
          /\ \E state \in {"succeeded", "left"} : TreeTo(o, state)
       \/ /\ trees[o].state = "running" /\ UNCHANGED mishaps
          /\ trees' = [trees EXCEPT ![o] = NoTree]
       \/ /\ trees[o].state = "gated" /\ trees' = [trees EXCEPT ![o] = NoTree]
          /\ \/ life[rows[o].owner] = "gone" /\ UNCHANGED mishaps
             \/ Mishap
    /\ UNCHANGED <<life, created, rows, holder, late, workers, recovery>>

PassDeadline ==
    /\ holder # 0 /\ ~ late /\ late' = TRUE
    /\ UNCHANGED <<life, created, rows, holder, trees, workers, recovery,
                   mishaps>>

\* Processes start and die; the memory of a launcher dies with it.
LifeOfLaunchers ==
    /\ \/ \E i \in Instances : Start(i) /\ UNCHANGED <<workers, recovery>>
       \/ \E i \in Instances :
             /\ Kill(i)
             /\ workers' = [o \in Ops |->
                   IF workers[o].pc # "none" /\ rows[o].owner = i
                   THEN Thread("ended") ELSE workers[o]]
             /\ recovery' = [l \in Launchers |->
                               IF l = i THEN NoRecovery ELSE recovery[l]]
    /\ UNCHANGED <<created, rows, holder, late, trees, mishaps>>

WorkerStep(o) ==
    \/ StartWorker(o) \/ Needless(o) \/ Spawn(o) \/ RecordControl(o)
    \/ OpenGate(o) \/ Await(o) \/ AbortCommand(o) \/ RecordExit(o)
    \/ FinishOperation(o)

RecoveryStep(l) == StopRecordedTree(l) \/ InterruptRecovered(l)

LauncherNext ==
    \/ \E o \in Ops : \/ WorkerStep(o) \/ TreeNotStopped(o) \/ FinishFails(o)
                      \/ CommandEnds(o)
    \/ \E l \in Launchers : Submit(l) \/ RecoveryStep(l)
    \/ PassDeadline \/ LifeOfLaunchers

\* Deadlines pass, and a launcher that is up is asked for its status.
LauncherFairness ==
    /\ WF_launcherVars(PassDeadline)
    /\ \A l \in Launchers : WF_launcherVars(RecoveryStep(l))

LauncherSpec ==
    LauncherInit /\ [][LauncherNext]_launcherVars /\ LauncherFairness

-----------------------------------------------------------------------------
\* Properties.

\* The tables, trees, threads and recoveries keep their domains.
LauncherTypeOK ==
    /\ LifeTypeOK
    /\ created \in 0..MaxOps /\ rows \in [Ops -> Row] /\ holder \in {0} \cup Ops
    /\ late \in BOOLEAN /\ trees \in [Ops -> Tree]
    /\ workers \in [Ops -> Worker]
    /\ recovery \in [Launchers -> Recovery] /\ mishaps \in 0..MaxMishaps

\* The lock covers whatever runs: while processes of a command that passed
\* its gate may still be alive, its operation holds the lock and its row
\* names them, whichever launcher dies, is late, or recovers (_run: "Block
\* launcher-owned commands until ownership is durably recorded"; _operation_
\* worker: "Recovery may only release them after it proves the persisted
\* control tree has stopped").  So two operations never act at once.
LockCoversTrees ==
    \A o \in Ops :
        trees[o].state \in Ungated =>
            holder = o /\ rows[o].control = trees[o].command

\* No operation keeps the lock for ever, wherever its launcher dies, hangs
\* or fails to stop a tree, as long as a launcher is up in the end.
LockReleased ==
    \A o \in Ops :
        holder = o ~> \/ holder # o
                      \/ \A l \in Launchers : life[l] # "up"
=============================================================================
