------------------------------ MODULE Selfmod ------------------------------
(***************************************************************************)
(* selfmod.py: proposals to change the program's own files.  A run is      *)
(* edited and tested in a workspace, approved, deployed onto the live      *)
(* files one by one, and restored from its backup when something goes      *)
(* wrong.  Processes execute commands; a step ends at the next access to   *)
(* the database or to a live file, and a process may die between any two.  *)
(***************************************************************************)
EXTENDS Naturals, FiniteSets

CONSTANTS
    Runs,        \* run ids ("selfmod-<hex>")
    NoRun,
    Files,       \* files of the live repository
    FilesOf,     \* FilesOf[r]: the files run r declares
    Processes,   \* process ids; a lock never names a later process
    NoProcess,
    UsesGit,     \* the repository is a Git checkout
    Orderly,     \* operators ask for the status after a crash and leave
                 \* alone a run that is being deployed, and the handler of
                 \* a failed deployment does not fail itself
    MaxUpsets    \* bound on exceptions, deaths and edits by the user

ASSUME SelfmodAssumption ==
    /\ NoRun \notin Runs /\ NoProcess \notin Processes
    /\ FilesOf \in [Runs -> SUBSET Files]
    /\ Runs \cap {"original", "edited"} = {}
    /\ UsesGit \in BOOLEAN /\ Orderly \in BOOLEAN /\ MaxUpsets \in Nat

VARIABLES
    runs,        \* the selfmod_runs table
    lock,        \* the row of selfmod_deployment_lock
    live,        \* the live files' contents
    tree,        \* their contents at the Git HEAD
    head,        \* the commits made
    newest,      \* the run whose backup bundle is the newest
    cmd,         \* what each process is doing
    upsets       \* exceptions, deaths and edits so far

vars == <<runs, lock, live, tree, head, newest, cmd, upsets>>

-----------------------------------------------------------------------------
\* A run's candidate contents are named by the run.
Content == {"original", "edited"} \cup Runs

Phases == {"absent", "proposed", "backed_up", "editing", "testing",
           "reviewing", "approved", "deployed", "rollback_requested",
           "rejected", "restored", "interrupted", "cancelled"}

TerminalPhases == {"rejected", "restored", "cancelled"}

\* What cancel and reject accept.
OpenPhases == Phases \ (TerminalPhases \cup {"absent", "deployed"})

Run ==
    [phase : Phases,
     base : [Files -> Content],           \* source_fingerprint
     dirty : SUBSET Files,                \* git_status_start
     start : Nat,                         \* starting_commit
     bundle : {"none", "partial", "whole"},
     manifest : [Files -> Content],       \* the backup
     changed : SUBSET Files,              \* candidate files that differ
     recorded : [Files -> Content \cup {"unknown"}],  \* deployed hashes
     owner : Processes \cup {NoProcess}]

NewRun ==
    [phase |-> "absent", base |-> [f \in Files |-> "original"], dirty |-> {},
     start |-> 0, bundle |-> "none", manifest |-> [f \in Files |-> "original"],
     changed |-> {}, recorded |-> [f \in Files |-> "unknown"],
     owner |-> NoProcess]

AgentPcs == {"backup", "workspace", "claim", "edit", "begin", "review",
             "failed", "release"}

\* Between the acquisition of the deployment lock and its release.
LockedPcs == {"check", "copy", "commit", "record", "conclude", "health",
              "except", "conflicts", "restore", "recommit", "finish",
              "unlock"}

Command ==
    [pc : {"idle", "dead", "lock", "compare", "undo", "recheck"}
              \cup AgentPcs \cup LockedPcs,
     kind : {"none", "agent", "deploy", "rollback", "recover", "reject"},
     run : Runs \cup {NoRun},
     todo : SUBSET Files]

Idle == [pc |-> "idle", kind |-> "none", run |-> NoRun, todo |-> {}]

Free == [owner |-> NoProcess, run |-> NoRun]

SelfmodInit ==
    /\ runs = [r \in Runs |-> NewRun]
    /\ lock = Free
    /\ live = [f \in Files |-> "original"] /\ tree = live /\ head = 0
    /\ newest = NoRun
    /\ cmd = [p \in Processes |-> Idle]
    /\ upsets = 0

Alive(p) == p # NoProcess /\ cmd[p].pc # "dead"

Goto(p, pc) == cmd' = [cmd EXCEPT ![p].pc = pc]

Begin(p, kind, r, pc) ==
    /\ cmd[p].pc = "idle"
    /\ cmd' = [cmd EXCEPT ![p] = [pc |-> pc, kind |-> kind, run |-> r,
                                  todo |-> {}]]

Done(p) == cmd' = [cmd EXCEPT ![p] = Idle]

\* The work left to do on files, after which the command goes on at pc.
Schedule(p, todo, pc) ==
    cmd' = [cmd EXCEPT ![p].todo = todo, ![p].pc = pc]

\* The UPDATE of _phase.
Phase(r, from, to) ==
    /\ runs[r].phase \in from
    /\ runs' = [runs EXCEPT ![r].phase = to]

Dirty == IF UsesGit THEN {f \in Files : live[f] # tree[f]} ELSE {}

SourceMatches(r) ==
    /\ UsesGit => head = runs[r].start /\ Dirty = runs[r].dirty
    /\ \A f \in FilesOf[r] : live[f] = runs[r].base[f]

\* Whether git commit follows a deployment or a restoration of r.
Commits(r) == UsesGit /\ runs[r].dirty = {}

Touching(r) ==
    \E p \in Processes :
        cmd[p].run = r /\ cmd[p].kind \in {"deploy", "rollback", "recover"}

\* What Orderly excludes.
Undisturbed(r) ==
    Orderly => ~ Touching(r) /\ (lock.run = r => Alive(lock.owner))

-----------------------------------------------------------------------------
\* Planning, and the agent that edits and tests a candidate
\* (create_plan, _execute_selfmod_run).

CreatePlan(r) ==
    /\ runs[r].phase = "absent" /\ FilesOf[r] \cap Dirty = {}
    /\ runs' = [runs EXCEPT ![r] = [NewRun EXCEPT
                   !.phase = "proposed", !.base = live, !.dirty = Dirty,
                   !.start = head]]
    /\ UNCHANGED <<lock, live, tree, head, newest, cmd, upsets>>

\* create_backup makes the bundle's directory first.
StartRun(p, r) ==
    /\ runs[r].phase = "proposed" /\ runs[r].bundle = "none"
    /\ Begin(p, "agent", r, "backup")
    /\ runs' = [runs EXCEPT ![r].bundle = "partial"]
    /\ UNCHANGED <<lock, live, tree, head, newest, upsets>>

\* The bundle is complete; if the run was ended meanwhile it stays unused.
CreateBackup(p, r) ==
    /\ cmd[p].pc = "backup"
    /\ runs' = [runs EXCEPT
                   ![r].bundle = "whole", ![r].manifest = live,
                   ![r].phase = IF @ = "proposed" THEN "backed_up" ELSE @]
    /\ newest' = r
    /\ IF runs[r].phase = "proposed" THEN Goto(p, "workspace") ELSE Done(p)
    /\ UNCHANGED <<lock, live, tree, head, upsets>>

PrepareWorkspace(p, r) ==
    /\ cmd[p].pc = "workspace"
    /\ \/ Phase(r, {"backed_up"}, "editing") /\ Goto(p, "claim")
       \/ runs[r].phase # "backed_up" /\ Done(p) /\ UNCHANGED runs
    /\ UNCHANGED <<lock, live, tree, head, newest, upsets>>

\* claim() looks at the lease, not at the phase.
Claim(p, r) ==
    /\ cmd[p].pc = "claim"
    /\ runs' = [runs EXCEPT ![r].owner = p]
    /\ Goto(p, "edit")
    /\ UNCHANGED <<lock, live, tree, head, newest, upsets>>

\* The agent's file tools; a run without a diff is rejected.
Edit(p, r) ==
    /\ cmd[p].pc = "edit"
    /\ \/ \E C \in SUBSET FilesOf[r] \ {{}} :
             runs' = [runs EXCEPT ![r].changed = C] /\ Goto(p, "begin")
       \/ IF runs[r].phase \in OpenPhases
          THEN /\ runs' = [runs EXCEPT ![r].changed = {}, ![r].phase = "rejected"]
               /\ Goto(p, "compare")
          ELSE /\ runs' = [runs EXCEPT ![r].changed = {}]
               /\ Goto(p, "release")
    /\ UNCHANGED <<lock, live, tree, head, newest, upsets>>

\* A run whose lease ran out meanwhile is taken out of "interrupted".
BeginTesting(p, r) ==
    /\ cmd[p].pc = "begin"
    /\ \/ Phase(r, {"editing", "interrupted"}, "testing") /\ Goto(p, "review")
       \/ /\ runs[r].phase \notin {"editing", "interrupted"}
          /\ Goto(p, "failed") /\ UNCHANGED runs
    /\ UNCHANGED <<lock, live, tree, head, newest, upsets>>

\* The recorded tests decide; a rejection restores in the same command.
Review(p, r) ==
    /\ cmd[p].pc = "review"
    /\ \/ Phase(r, {"testing"}, "reviewing") /\ Goto(p, "release")
       \/ Phase(r, {"testing"}, "rejected") /\ Goto(p, "compare")
       \/ runs[r].phase # "testing" /\ Goto(p, "failed") /\ UNCHANGED runs
    /\ UNCHANGED <<lock, live, tree, head, newest, upsets>>

\* The except block: a run still in the agent's hands is rejected.
FailRun(p, r) ==
    /\ cmd[p].pc = "failed"
    /\ \/ /\ Phase(r, {"editing", "testing", "reviewing"}, "rejected")
          /\ Goto(p, "compare")
       \/ /\ runs[r].phase \notin {"editing", "testing", "reviewing"}
          /\ Goto(p, "release") /\ UNCHANGED runs
    /\ UNCHANGED <<lock, live, tree, head, newest, upsets>>

Release(p, r) ==
    /\ cmd[p].pc = "release"
    /\ runs' = [runs EXCEPT ![r].owner = IF @ = p THEN NoProcess ELSE @]
    /\ Done(p)
    /\ UNCHANGED <<lock, live, tree, head, newest, upsets>>

\* A lease may have run out even under an owner that is alive.
ReconcileInterrupted(r) ==
    /\ runs[r].phase \in {"editing", "testing", "reviewing"}
    /\ runs[r].owner # NoProcess
    /\ runs' = [runs EXCEPT ![r].phase = "interrupted", ![r].owner = NoProcess]
    /\ UNCHANGED <<lock, live, tree, head, newest, cmd, upsets>>

Resume(r) ==
    /\ Phase(r, {"interrupted"}, "editing")
    /\ UNCHANGED <<lock, live, tree, head, newest, cmd, upsets>>

Approve(r) ==
    /\ Phase(r, {"reviewing"}, "approved")
    /\ UNCHANGED <<lock, live, tree, head, newest, cmd, upsets>>

Cancel(r) ==
    /\ Undisturbed(r) /\ ~ (Orderly /\ runs[r].phase = "rollback_requested")
    /\ Phase(r, OpenPhases, "cancelled")
    /\ UNCHANGED <<lock, live, tree, head, newest, cmd, upsets>>

\* prune_backups: by age or size, but never the newest bundle.
PruneBackup(r) ==
    /\ runs[r].bundle = "whole" /\ newest # r
    /\ Orderly => runs[r].phase \in TerminalPhases
    /\ runs' = [runs EXCEPT ![r].bundle = "none"]
    /\ UNCHANGED <<lock, live, tree, head, newest, cmd, upsets>>

-----------------------------------------------------------------------------
\* A rejection, by an operator or by the agent, and the restoration that
\* follows it without the deployment lock: restore(from_candidate_only).

Reject(p, r) ==
    /\ Undisturbed(r)
    /\ Phase(r, OpenPhases, "rejected")
    /\ Begin(p, "reject", r, "compare")
    /\ UNCHANGED <<lock, live, tree, head, newest, upsets>>

EndOfReject(p) == IF cmd[p].kind = "agent" THEN Goto(p, "release") ELSE Done(p)

Compare(p, r) ==
    /\ cmd[p].pc = "compare"
    /\ \/ runs[r].bundle # "whole" /\ EndOfReject(p)
       \/ /\ runs[r].bundle = "whole"
          /\ IF \E f \in FilesOf[r] : live[f] # runs[r].manifest[f]
             THEN Schedule(p, FilesOf[r], "undo") ELSE Goto(p, "recheck")
    /\ UNCHANGED <<runs, lock, live, tree, head, newest, upsets>>

Undo(p, r) ==
    /\ cmd[p].pc = "undo"
    /\ \E f \in cmd[p].todo :
          /\ live' = [live EXCEPT ![f] = runs[r].manifest[f]]
          /\ LET left == cmd[p].todo \ {f}
             IN  Schedule(p, left, IF left = {} THEN "recheck" ELSE "undo")
    /\ UNCHANGED <<runs, lock, tree, head, newest, upsets>>

\* Whatever still differs raises, and the run stays rejected.
Recheck(p, r) ==
    /\ cmd[p].pc = "recheck"
    /\ \/ Phase(r, {"rejected"}, "restored")
       \/ /\ \E f \in FilesOf[r] : live[f] # runs[r].manifest[f]
          /\ UNCHANGED runs
    /\ EndOfReject(p)
    /\ UNCHANGED <<lock, live, tree, head, newest, upsets>>

-----------------------------------------------------------------------------
\* Deployment.

\* Mutation: an expired lease is enough, even of a live local process.
StaleByLease == TRUE

\* _deployment_owner_stale, for processes of one host.
Stale == ~ Alive(lock.owner)

StartDeploy(p, r) ==
    /\ runs[r].phase = "approved" /\ Undisturbed(r)
    /\ Begin(p, "deploy", r, "lock")
    /\ UNCHANGED <<runs, lock, live, tree, head, newest, upsets>>

StartRollback(p, r) ==
    /\ runs[r].phase = "deployed" /\ Undisturbed(r)
    /\ Begin(p, "rollback", r, "lock")
    /\ UNCHANGED <<runs, lock, live, tree, head, newest, upsets>>

\* deployment_lock: a stale lock is taken over whatever it was held for.
Lock(p, r) ==
    /\ cmd[p].pc = "lock"
    /\ \/ /\ Stale /\ (Orderly => lock.owner = NoProcess)
          /\ lock' = [owner |-> p, run |-> r]
          /\ Goto(p, IF cmd[p].kind = "deploy" THEN "check" ELSE "conflicts")
       \/ ~ Stale /\ Done(p) /\ UNCHANGED lock
    /\ UNCHANGED <<runs, live, tree, head, newest, upsets>>

\* The preconditions of deploy(); outside its try block.
Check(p, r) ==
    /\ cmd[p].pc = "check"
    /\ \/ /\ runs[r].bundle = "whole" /\ SourceMatches(r)
          /\ Schedule(p, runs[r].changed, "copy")
       \/ ~ (runs[r].bundle = "whole" /\ SourceMatches(r)) /\ Goto(p, "unlock")
    /\ UNCHANGED <<runs, lock, live, tree, head, newest, upsets>>

Copy(p, r) ==
    /\ cmd[p].pc = "copy"
    /\ \E f \in cmd[p].todo :
          /\ live' = [live EXCEPT ![f] = r]
          /\ LET left == cmd[p].todo \ {f}
             IN  Schedule(p, left, IF left = {} THEN "commit" ELSE "copy")
    /\ UNCHANGED <<runs, lock, tree, head, newest, upsets>>

\* git add and git commit of the files F; fails when nothing is changed.
Committable(F) == \E f \in F : live[f] # tree[f]

GitCommit(F) ==
    /\ Committable(F)
    /\ tree' = [f \in Files |-> IF f \in F THEN live[f] ELSE tree[f]]
    /\ head' = head + 1

CommitDeployed(p, r) ==
    /\ cmd[p].pc = "commit"
    /\ \/ Commits(r) /\ GitCommit(runs[r].changed) /\ Goto(p, "record")
       \/ ~ Commits(r) /\ Goto(p, "record") /\ UNCHANGED <<tree, head>>
       \/ /\ Commits(r) /\ ~ Committable(runs[r].changed)
          /\ Goto(p, "except") /\ UNCHANGED <<tree, head>>
    /\ UNCHANGED <<runs, lock, live, newest, upsets>>

RecordDeployed(p, r) ==
    /\ cmd[p].pc = "record"
    /\ runs' = [runs EXCEPT ![r].recorded =
                   [f \in Files |-> IF f \in runs[r].changed THEN live[f]
                                    ELSE "unknown"]]
    /\ Goto(p, "conclude")
    /\ UNCHANGED <<lock, live, tree, head, newest, upsets>>

Conclude(p, r) ==
    /\ cmd[p].pc = "conclude"
    /\ \/ Phase(r, {"approved"}, "deployed") /\ Goto(p, "health")
       \/ runs[r].phase # "approved" /\ Goto(p, "except") /\ UNCHANGED runs
    /\ UNCHANGED <<lock, live, tree, head, newest, upsets>>

\* The health subprocess succeeds or fails.
Health(p, r) ==
    /\ cmd[p].pc = "health"
    /\ \/ Goto(p, "unlock") /\ UNCHANGED runs
       \/ /\ Phase(r, {"deployed"}, "rollback_requested")
          /\ Schedule(p, FilesOf[r], "restore")
    /\ UNCHANGED <<lock, live, tree, head, newest, upsets>>

\* The except block restores only a run that is still approved.
Except(p, r) ==
    /\ cmd[p].pc = "except"
    /\ \/ /\ Phase(r, {"approved"}, "rollback_requested")
          /\ Schedule(p, FilesOf[r], "restore")
       \/ runs[r].phase # "approved" /\ Goto(p, "unlock") /\ UNCHANGED runs
    /\ UNCHANGED <<lock, live, tree, head, newest, upsets>>

-----------------------------------------------------------------------------
\* Rollback and restoration.

\* Mutation: a run that is only approved is taken for untouched.
RecoverablePhasesDeployed == {"deployed", "rollback_requested"}

RecoverablePhases == {"approved", "deployed", "rollback_requested"}

Conflicts(p, r) ==
    /\ cmd[p].pc = "conflicts"
    /\ IF \A f \in runs[r].changed : live[f] = runs[r].recorded[f]
       THEN \/ /\ Phase(r, {"deployed"}, "rollback_requested")
               /\ Schedule(p, FilesOf[r], "restore")
            \/ runs[r].phase # "deployed" /\ Goto(p, "unlock") /\ UNCHANGED runs
       ELSE Goto(p, "unlock") /\ UNCHANGED runs
    /\ UNCHANGED <<lock, live, tree, head, newest, upsets>>

\* _restore_manifest_files, after verify_backup; a run that was ended
\* meanwhile is refused.
Restore(p, r) ==
    /\ cmd[p].pc = "restore"
    /\ IF \/ runs[r].bundle # "whole"
          \/ cmd[p].todo = FilesOf[r] /\ runs[r].phase \notin RecoverablePhases
       THEN Goto(p, "unlock") /\ UNCHANGED live
       ELSE \E f \in cmd[p].todo :
          /\ live' = [live EXCEPT ![f] = runs[r].manifest[f]]
          /\ LET left == cmd[p].todo \ {f}
             IN  Schedule(p, left, IF left = {} THEN "recommit" ELSE "restore")
    /\ UNCHANGED <<runs, lock, tree, head, newest, upsets>>

CommitRestored(p, r) ==
    /\ cmd[p].pc = "recommit"
    /\ LET due == Commits(r) /\ head # runs[r].start
       IN  \/ due /\ GitCommit(FilesOf[r]) /\ Goto(p, "finish")
           \/ ~ due /\ Goto(p, "finish") /\ UNCHANGED <<tree, head>>
           \/ /\ due /\ ~ Committable(FilesOf[r])
              /\ Goto(p, "unlock") /\ UNCHANGED <<tree, head>>
    /\ UNCHANGED <<runs, lock, live, newest, upsets>>

FinishRestore(p, r) ==
    /\ cmd[p].pc = "finish"
    /\ \/ Phase(r, {"rollback_requested"}, "restored")
       \/ runs[r].phase # "rollback_requested" /\ UNCHANGED runs
    /\ Goto(p, "unlock")
    /\ UNCHANGED <<lock, live, tree, head, newest, upsets>>

\* Mutation: the released lock still names its run.
UnlockOwnerOnly(p, r) ==
    /\ cmd[p].pc = "unlock"
    /\ lock' = [lock EXCEPT !.owner = NoProcess]
    /\ Done(p)
    /\ UNCHANGED <<runs, live, tree, head, newest, upsets>>

\* _release_deployment_lock
Unlock(p, r) ==
    /\ cmd[p].pc = "unlock"
    /\ lock' = IF lock.owner = p THEN Free ELSE lock
    /\ Done(p)
    /\ UNCHANGED <<runs, live, tree, head, newest, upsets>>

\* Mutation: a lock without a recoverable run is left as it is.
RecoverRunsOnly(p) ==
    /\ lock.owner # NoProcess /\ Stale
    /\ LET r == lock.run
       IN  /\ runs[r].phase \in RecoverablePhases
           /\ Phase(r, RecoverablePhases, "rollback_requested")
           /\ cmd[p].pc = "idle"
           /\ cmd' = [cmd EXCEPT ![p] = [pc |-> "restore", kind |-> "recover",
                                         run |-> r, todo |-> FilesOf[r]]]
           /\ lock' = [lock EXCEPT !.owner = p]
    /\ UNCHANGED <<live, tree, head, newest, upsets>>

\* reconcile_stale_deployment, with which every status query begins.
Recover(p) ==
    /\ lock.owner # NoProcess /\ Stale
    /\ cmd[p].pc = "idle"
    /\ LET r == lock.run
       IN  \/ /\ Phase(r, RecoverablePhases, "rollback_requested")
              /\ cmd' = [cmd EXCEPT ![p] = [pc |-> "restore",
                            kind |-> "recover", run |-> r, todo |-> FilesOf[r]]]
              /\ lock' = [lock EXCEPT !.owner = p]
           \/ /\ runs[r].phase \notin RecoverablePhases
              /\ lock' = Free /\ UNCHANGED <<runs, cmd>>
    /\ UNCHANGED <<live, tree, head, newest, upsets>>

-----------------------------------------------------------------------------
\* The environment.

Upset == upsets < MaxUpsets /\ upsets' = upsets + 1

\* An exception, where the code may raise one.
Error(p) ==
    /\ Upset
    /\ \/ cmd[p].pc \in {"copy", "commit", "record", "conclude", "health"}
          /\ Goto(p, "except")
       \/ cmd[p].pc \in {"check", "conflicts", "restore", "recommit", "finish"}
          /\ Goto(p, "unlock")
       \/ ~ Orderly /\ cmd[p].pc = "except" /\ Goto(p, "unlock")
       \/ cmd[p].pc \in {"edit", "begin", "review"} /\ Goto(p, "failed")
       \/ cmd[p].pc \in {"undo", "recheck"} /\ EndOfReject(p)
    /\ UNCHANGED <<runs, lock, live, tree, head, newest>>

Die(p) ==
    /\ cmd[p].pc # "dead" /\ Upset
    /\ cmd' = [cmd EXCEPT ![p] = [Idle EXCEPT !.pc = "dead"]]
    /\ UNCHANGED <<runs, lock, live, tree, head, newest>>

Restart(p) ==
    /\ cmd[p].pc = "dead" /\ lock.owner # p
    /\ Done(p)
    /\ UNCHANGED <<runs, lock, live, tree, head, newest, upsets>>

\* The user edits a file of the live repository.
UserEdit(f) ==
    /\ live[f] # "edited" /\ Upset
    /\ live' = [live EXCEPT ![f] = "edited"]
    /\ UNCHANGED <<runs, lock, tree, head, newest, cmd>>

-----------------------------------------------------------------------------
Agent(p, r) ==
    \/ CreateBackup(p, r) \/ PrepareWorkspace(p, r) \/ Claim(p, r)
    \/ Edit(p, r) \/ BeginTesting(p, r) \/ Review(p, r) \/ FailRun(p, r)
    \/ Release(p, r)

Rejection(p, r) == Compare(p, r) \/ Undo(p, r) \/ Recheck(p, r)

Deployment(p, r) ==
    \/ Lock(p, r) \/ Check(p, r) \/ Copy(p, r) \/ CommitDeployed(p, r)
    \/ RecordDeployed(p, r) \/ Conclude(p, r) \/ Health(p, r) \/ Except(p, r)

Restoration(p, r) ==
    \/ Conflicts(p, r) \/ Restore(p, r) \/ CommitRestored(p, r)
    \/ FinishRestore(p, r) \/ Unlock(p, r)

Step(p) ==
    \E r \in Runs :
        /\ cmd[p].run = r
        /\ Agent(p, r) \/ Rejection(p, r) \/ Deployment(p, r)
              \/ Restoration(p, r)

Operator ==
    \/ \E r \in Runs : \/ CreatePlan(r) \/ Approve(r) \/ Cancel(r) \/ Resume(r)
                       \/ ReconcileInterrupted(r) \/ PruneBackup(r)
    \/ \E p \in Processes, r \in Runs :
          StartRun(p, r) \/ Reject(p, r) \/ StartDeploy(p, r)
              \/ StartRollback(p, r)

SelfmodNext ==
    \/ Operator
    \/ \E p \in Processes : Step(p) \/ Recover(p) \/ Error(p) \/ Die(p)
                               \/ Restart(p)
    \/ \E f \in Files : UserEdit(f)

\* Commands of live processes go on, and somebody asks for the status.
SelfmodFairness ==
    \A p \in Processes : WF_vars(Step(p)) /\ WF_vars(Recover(p))

SelfmodSpec == SelfmodInit /\ [][SelfmodNext]_vars /\ SelfmodFairness

-----------------------------------------------------------------------------
\* Properties.

\* The tables and commands keep their domains.
SelfmodTypeOK ==
    /\ runs \in [Runs -> Run]
    /\ lock \in [owner : Processes, run : Runs] \cup {Free}
    /\ live \in [Files -> Content] /\ tree \in [Files -> Content]
    /\ head \in Nat /\ newest \in Runs \cup {NoRun}
    /\ cmd \in [Processes -> Command] /\ upsets \in 0..MaxUpsets

\* "Only one deployment, rollback, or crash recovery can hold the
\* cross-process SQLite lease" (SELFMOD.md:136), from the first file it looks
\* at to the last it writes, whoever dies and whoever recovers.
OneDeployer ==
    \A p, q \in Processes :
        cmd[p].pc \in LockedPcs /\ cmd[q].pc \in LockedPcs => p = q

\* No command writes live files of run r, and none is to be recovered.
Settled(r) ==
    /\ lock.run # r
    /\ \A p \in Processes :
          cmd[p].run = r => cmd[p].pc \notin LockedPcs \cup {"undo", "recheck"}

\* When nothing is under way for a run, its live files are what its phase
\* says, all of them: the candidate's if it is deployed, none of the
\* candidate's if it is restored or waits for its deployment, wherever
\* deployers died or failed (deploy, restore, reconcile_stale_deployment).
FilesMatchPhase ==
    \A r \in Runs :
        Settled(r) =>
            /\ runs[r].phase = "deployed" =>
                 \A f \in runs[r].changed : live[f] \in {r, "edited"}
            /\ runs[r].phase \in {"approved", "restored"} =>
                 \A f \in FilesOf[r] : live[f] # r

\* README.md:543 "atomic deployment", SELFMOD.md:138 "crash recovery [...]
\* holds the global lock through exact restoration": when nothing is under
\* way, a run's candidate files are live together or not at all.
DeploymentAtomic ==
    \A r \in Runs :
        Settled(r) /\ (\A f \in Files : live[f] # "edited") =>
            \/ \A f \in runs[r].changed : live[f] = r
            \/ \A f \in runs[r].changed : live[f] # r

\* The lock of a dead deployer does not stay: while a process is up, it is
\* recovered and released (reconcile_stale_deployment).
DeadDeployerRecovered ==
    \A p \in Processes :
        lock.owner = p /\ cmd[p].pc = "dead" ~>
            \/ lock.owner # p
            \/ \A q \in Processes : cmd[q].pc = "dead"
=============================================================================
