------------------------- MODULE FleetOrchestrator -------------------------
(***************************************************************************)
(* master_orchestrator.py: processes that run masters, inline or with a    *)
(* pool of delegated workers, on the shared fleet ledger.  A step ends at  *)
(* the next access to the database.                                        *)
(***************************************************************************)
EXTENDS FleetStore, Sequences

CONSTANTS
    Masters,         \* the agent ids of masters
    Team,            \* Team[m]: the ids of the children master m creates
    MasterKinds,     \* how masters are run
    WorkerSlots,     \* worker_slots
    HeartbeatEvery,  \* HEARTBEAT_SECONDS
    Punctual,        \* the heartbeat thread is never late
    MayExit,         \* processes may exit in an orderly way
    MaxRaises        \* bound on SQLite errors, per master

TeamOf(m) == {Team[m][i] : i \in DOMAIN Team[m]}

ASSUME OrchestratorAssumption ==
    /\ Masters \subseteq Agents
    /\ Team \in [Masters -> Seq(Agents \ Masters)]
    /\ \A m, n \in Masters : m # n => TeamOf(m) \cap TeamOf(n) = {}
    /\ \A m \in Masters : Cardinality(TeamOf(m)) = Len(Team[m])
    /\ MasterKinds \subseteq {"inline", "delegated", "background"}
    /\ WorkerSlots \in Nat \ {0} /\ HeartbeatEvery \in Nat
    /\ Punctual \in BOOLEAN /\ MayExit \in BOOLEAN /\ MaxRaises \in Nat

VARIABLES
    proc,            \* the processes
    jobs,            \* the locals of each run_inline or run_delegated
    work             \* what became of each child's future

vars == <<agents, owners, proc, jobs, work>>

Results == {"none", "output", "error"}

Process ==
    [mode : {"new", "up", "closing", "down"},
     timer : 0..HeartbeatEvery,          \* until the heartbeat thread wakes
     mirror : SUBSET Agents]             \* active rows of _AGENTS

Job ==
    [pc : {"none", "create", "start", "spawn", "pool", "joined", "audit",
           "calling", "settle", "rescue", "prune", "over", "lost"},
     owner : Owners \cup {NoOwner},
     kind : {"none", "inline", "delegated", "background"},
     repo : BOOLEAN,                     \* repository_task
     src : Agents \cup {NoAgent},        \* retry_of
     next : Nat,                         \* the child to create next
     verdict : Results,                  \* what _finish(master_id) is given
     raises : 0..MaxRaises]

IdleJob ==
    [pc |-> "none", owner |-> NoOwner, kind |-> "none", repo |-> FALSE,
     src |-> NoAgent, next |-> 1, verdict |-> "none", raises |-> 0]

Futures == {"none", "submitted", "calling", "raised", "kept", "dropped"}

Init ==
    /\ StoreInit
    /\ proc = [o \in Owners |->
                  [mode |-> "new", timer |-> HeartbeatEvery, mirror |-> {}]]
    /\ jobs = [m \in Masters |-> IdleJob]
    /\ work = [c \in Agents \ Masters |-> "none"]

Alive(o) == proc[o].mode \in {"up", "closing"}

Goto(m, pc) == jobs' = [jobs EXCEPT ![m].pc = pc]

\* Mutation: the marker is passed on as the output.
ConcludeMarker(m, r) ==
    jobs' = [jobs EXCEPT ![m].pc = "settle",
                         ![m].verdict = IF r = "none" THEN "CANCELLED" ELSE r]

Conclude(m, r) == jobs' = [jobs EXCEPT ![m].pc = "settle", ![m].verdict = r]

\* Mutation: a row with a cancel request no longer counts as active.
SyncedUncancelled(o, A) ==
    [proc EXCEPT ![o].mirror =
        {a \in @ \cup A : a \notin A \/ (agents'[a].status \in Active
                                            /\ ~ agents'[a].cancel)}]

\* _sync_local of the rows A, as the step leaves them.
Synced(o, A) ==
    [proc EXCEPT ![o].mirror =
        {a \in @ \cup A : a \notin A \/ agents'[a].status \in Active}]

Aborted(a) == agents'[a].status \in {"cancelled", "interrupted"}

-----------------------------------------------------------------------------
\* Processes and the heartbeat thread.

EnsureOwner(o) ==
    /\ proc[o].mode = "new"
    /\ RegisterOwner(o)
    /\ proc' = [proc EXCEPT ![o].mode = "up"]
    /\ UNCHANGED <<jobs, work>>

Beat(o) ==
    /\ proc[o].mode = "up" /\ proc[o].timer = 0
    /\ proc' = [proc EXCEPT ![o].timer = HeartbeatEvery]
    /\ \/ proc[o].mirror = {} /\ UNCHANGED storeVars
       \/ proc[o].mirror # {} /\ HeartbeatOwner(o)
       \/ /\ proc[o].mirror # {} /\ owners[o].status # "open"
          /\ RegisterOwner(o)
    /\ UNCHANGED <<jobs, work>>

\* _close_owner at exit; threads may still run until the process is gone.
Close(o) ==
    /\ MayExit /\ proc[o].mode = "up"
    /\ CloseOwner(o)
    /\ proc' = [proc EXCEPT ![o].mode = "closing"]
    /\ UNCHANGED <<jobs, work>>

Die(o) ==
    /\ Alive(o)
    /\ proc' = [proc EXCEPT ![o].mode = "down"]
    /\ UNCHANGED <<agents, owners, jobs, work>>

Tick ==
    /\ Punctual => \A o \in Owners : proc[o].mode = "up" => proc[o].timer > 0
    /\ proc' = [o \in Owners |->
                   [proc[o] EXCEPT !.timer = IF @ > 0 THEN @ - 1 ELSE 0]]
    /\ Age
    /\ UNCHANGED <<jobs, work>>

\* snapshot(), which every status query starts with.
Snapshot(o) ==
    /\ proc[o].mode = "up"
    /\ ReconcileStaleOwners
    /\ UNCHANGED <<proc, jobs, work>>

\* master_cancel(): one agent, or "all".
RequestCancel(o, S) ==
    /\ proc[o].mode = "up"
    /\ CancelAgents(S)
    /\ proc' = Synced(o, Selected(S))
    /\ UNCHANGED <<jobs, work>>

Selectors ==
    {{a} : a \in {b \in Agents : IsActive(b)}}
        \cup {{a \in Agents : IsActive(a)}}

-----------------------------------------------------------------------------
\* The thread that runs master m for process o.

Launch(o, m, kind, repo, src) ==
    /\ jobs[m].pc = "none" /\ proc[o].mode = "up"
    /\ jobs' = [jobs EXCEPT ![m] = [IdleJob EXCEPT
                   !.pc = "create", !.owner = o, !.kind = kind,
                   !.repo = repo, !.src = src]]
    /\ UNCHANGED <<agents, owners, proc, work>>

\* master_retry() reads the candidate's status before it launches.
Retriable(src) ==
    agents[src].status \in {"interrupted", "failed", "cancelled"}

CreateMaster(o, m) ==
    /\ jobs[m].pc = "create"
    /\ CreateAgent(m, o, NoAgent, jobs[m].src)
    /\ proc' = Synced(o, {m})
    /\ Goto(m, "start")
    /\ UNCHANGED work

StartMaster(o, m) ==
    /\ jobs[m].pc = "start"
    /\ \/ /\ StartAgent(m, o, jobs[m].kind = "inline")
          /\ proc' = Synced(o, {m})
          /\ Goto(m, IF jobs[m].kind = "inline" THEN "calling" ELSE "spawn")
       \/ /\ ~ CanStart(m, o)
          /\ Goto(m, "over")
          /\ UNCHANGED <<agents, owners, proc>>
    /\ UNCHANGED work

CreateChild(o, m) ==
    /\ jobs[m].pc = "spawn" /\ jobs[m].next \in DOMAIN Team[m]
    /\ LET c == Team[m][jobs[m].next]
       IN  CreateAgent(c, o, m, NoAgent) /\ proc' = Synced(o, {c})
    /\ jobs' = [jobs EXCEPT ![m].next = @ + 1]
    /\ UNCHANGED work

Submit(o, m) ==
    /\ jobs[m].pc = "spawn" /\ jobs[m].next \notin DOMAIN Team[m]
    /\ Goto(m, "pool")
    /\ work' = [c \in Agents \ Masters |->
                   IF c \in TeamOf(m) THEN "submitted" ELSE work[c]]
    /\ UNCHANGED <<agents, owners, proc>>

Join(o, m) ==
    /\ jobs[m].pc = "pool"
    /\ \A c \in TeamOf(m) : work[c] \in {"kept", "dropped"}
    /\ Goto(m, "joined")
    /\ UNCHANGED <<agents, owners, proc, work>>

\* The reads and checks between the pool and the audit.
CheckOutputs(o, m) ==
    /\ jobs[m].pc = "joined"
    /\ IF CancelRequested(m) THEN Conclude(m, "none")
       ELSE IF \E c \in TeamOf(m) : work[c] = "kept" THEN Goto(m, "audit")
       ELSE Conclude(m, IF jobs[m].repo THEN "output" ELSE "error")
    /\ UNCHANGED <<agents, owners, proc, work>>

BeginAudit(o, m) ==
    /\ jobs[m].pc = "audit"
    /\ \/ BeginModelCall(m, o) /\ proc' = Synced(o, {m}) /\ Goto(m, "calling")
       \/ ~ CanBegin(m, o) /\ Conclude(m, "none")
          /\ UNCHANGED <<agents, owners, proc>>
    /\ UNCHANGED work

\* _finish(master_id, r): when the row is gone, nothing is written or pruned.
FinishMaster(o, m, r) ==
    /\ \/ FinishAgent(m, o, r) /\ proc' = Synced(o, {m}) /\ Goto(m, "prune")
       \/ ~ OwnedBy(m, o) /\ Goto(m, "over")
          /\ UNCHANGED <<agents, owners, proc>>
    /\ UNCHANGED work

\* The inline call or the audit returns, or raises.
Return(o, m) ==
    /\ jobs[m].pc = "calling"
    /\ \E r \in Results : FinishMaster(o, m, r)

Settle(o, m) == jobs[m].pc = "settle" /\ FinishMaster(o, m, jobs[m].verdict)

PruneStep(o, m) ==
    /\ jobs[m].pc = "prune"
    /\ Prune
    /\ Goto(m, "over")
    /\ UNCHANGED <<proc, work>>

\* An access to the database raises.  It is caught only in the background
\* thread, and finds a master to finish only once the team has been created.
Raise(o, m) ==
    /\ jobs[m].pc \in {"create", "start", "spawn", "joined", "audit",
                       "calling", "settle", "rescue"}
    /\ jobs[m].raises < MaxRaises
    /\ jobs' = [jobs EXCEPT ![m].raises = @ + 1,
                   ![m].pc = IF /\ jobs[m].kind = "background"
                                /\ jobs[m].pc \notin
                                      {"create", "start", "spawn", "rescue"}
                             THEN "rescue" ELSE "lost"]
    /\ UNCHANGED <<agents, owners, proc, work>>

Rescue(o, m) == jobs[m].pc = "rescue" /\ FinishMaster(o, m, "error")

Main(o, m) ==
    \/ CreateMaster(o, m) \/ StartMaster(o, m)
    \/ CreateChild(o, m) \/ Submit(o, m)
    \/ Join(o, m) \/ CheckOutputs(o, m)
    \/ BeginAudit(o, m) \/ Return(o, m) \/ Settle(o, m)
    \/ PruneStep(o, m) \/ Rescue(o, m)

-----------------------------------------------------------------------------
\* The pool's threads, for child c of master m.

Slots(m) == {c \in TeamOf(m) : work[c] = "calling"}

Future(c, f) == work' = [work EXCEPT ![c] = f]

StartWorker(o, m, c) ==
    /\ work[c] = "submitted" /\ Cardinality(Slots(m)) < WorkerSlots
    /\ \/ StartAgent(c, o, TRUE) /\ proc' = Synced(o, {c}) /\ Future(c, "calling")
       \/ ~ CanStart(c, o) /\ Future(c, "dropped")
          /\ UNCHANGED <<agents, owners, proc>>
    /\ UNCHANGED jobs

\* Mutation: the marker finish_agent returns is not looked at.
FinishWorkerTrusting(o, m, c) ==
    /\ work[c] = "calling"
    /\ \E r \in Results :
          /\ FinishAgent(c, o, r)
          /\ Future(c, IF r = "error" THEN "dropped" ELSE "kept")
    /\ proc' = Synced(o, {c})
    /\ UNCHANGED jobs

FinishWorker(o, m, c) ==
    /\ work[c] = "calling"
    /\ \/ /\ \E r \in Results :
                /\ FinishAgent(c, o, r)
                /\ Future(c, IF r = "error" \/ Aborted(c) THEN "dropped" ELSE "kept")
          /\ proc' = Synced(o, {c})
       \/ /\ ~ OwnedBy(c, o)
          /\ \E f \in {"kept", "dropped"} : Future(c, f)
          /\ UNCHANGED <<agents, owners, proc>>
    /\ UNCHANGED jobs

\* A worker's own access to the database raises; the main thread, collecting
\* the future, records the failure.
RaiseInWorker(o, m, c) ==
    /\ work[c] \in {"submitted", "calling"}
    /\ jobs[m].raises < MaxRaises
    /\ jobs' = [jobs EXCEPT ![m].raises = @ + 1]
    /\ Future(c, "raised")
    /\ UNCHANGED <<agents, owners, proc>>

CollectRaised(o, m, c) ==
    /\ work[c] = "raised"
    /\ \/ FinishAgent(c, o, "error") /\ proc' = Synced(o, {c})
       \/ ~ OwnedBy(c, o) /\ UNCHANGED <<agents, owners, proc>>
    /\ Future(c, "dropped")
    /\ UNCHANGED jobs

Worker(o, m, c) ==
    /\ c \in TeamOf(m) /\ jobs[m].pc = "pool"
    /\ StartWorker(o, m, c) \/ FinishWorker(o, m, c) \/ CollectRaised(o, m, c)

-----------------------------------------------------------------------------
Next ==
    \/ \E o \in Owners :
          \/ EnsureOwner(o) \/ Beat(o) \/ Close(o) \/ Die(o) \/ Snapshot(o)
          \/ \E S \in Selectors : S # {} /\ RequestCancel(o, S)
          \/ \E m \in Masters, kind \in MasterKinds, repo \in BOOLEAN :
             /\ kind = "inline" => ~ repo
             /\ \/ Launch(o, m, kind, repo, NoAgent)
                \/ \E src \in Masters :
                      Retriable(src) /\ Launch(o, m, kind, repo, src)
    \/ \E m \in Masters, o \in Owners :
          /\ jobs[m].owner = o /\ Alive(o)
          /\ \/ Main(o, m) \/ Raise(o, m)
             \/ \E c \in TeamOf(m) :
                   \/ Worker(o, m, c)
                   \/ jobs[m].pc = "pool" /\ RaiseInWorker(o, m, c)
    \/ Tick

Spec == Init /\ [][Next]_vars

\* Fairness: threads get to run and model calls return (they carry timeouts),
\* the heartbeat thread is not starved, time passes, and as long as a process
\* is up somebody asks it for the fleet's status now and then.
MainOf(m) == \E o \in Owners : jobs[m].owner = o /\ Alive(o) /\ Main(o, m)

WorkerOf(m, c) ==
    \E o \in Owners : jobs[m].owner = o /\ Alive(o) /\ Worker(o, m, c)

FairSpec ==
    /\ Spec
    /\ \A m \in Masters :
          /\ WF_vars(MainOf(m))
          /\ \A c \in TeamOf(m) : WF_vars(WorkerOf(m, c))
    /\ \A o \in Owners : WF_vars(Beat(o)) /\ WF_vars(Snapshot(o))
    /\ WF_vars(Tick)

-----------------------------------------------------------------------------
\* Properties.

\* Locals keep their domains, and a process mirrors only rows of the ledger.
OrchestratorTypeOK ==
    /\ FleetTypeOK
    /\ proc \in [Owners -> Process]
    /\ jobs \in [Masters -> Job]
    /\ work \in [Agents \ Masters -> Futures]

\* A run that has returned leaves no active row behind, neither its master's
\* nor a child's, however cancels, interruptions and failures fell
\* (run_inline, run_delegated, _run_worker).
NothingLeftBehind ==
    \A m \in Masters :
        jobs[m].pc \in {"prune", "over"} =>
            \A a \in TeamOf(m) \cup {m} : ~ IsActive(a)

\* The audit sees only results the ledger has accepted, and a delegated
\* master is done only if there was such a result; repository tasks may also
\* end with EVIDENCE_REQUIRED (run_delegated).
AuditIsGrounded ==
    \A m \in Masters :
        /\ \A c \in TeamOf(m) :
              work[c] = "kept" => agents[c].status \in {"done", "pruned"}
        /\ /\ jobs[m].kind # "inline"
           /\ \/ jobs[m].pc = "calling"
              \/ agents[m].status = "done" /\ ~ jobs[m].repo
           => \E c \in TeamOf(m) : work[c] = "kept"

\* Every run ends, or dies with its process (run_inline, run_delegated).
RunsEnd ==
    \A m \in Masters :
        jobs[m].pc # "none" ~>
            jobs[m].pc \in {"over", "lost"}
                \/ \E o \in Owners : jobs[m].owner = o /\ ~ Alive(o)

SomebodyUp == \E o \in Owners : proc[o].mode = "up"

Orphaned(a) ==
    IsActive(a) /\ agents[a].owner # NoOwner
        /\ proc[agents[a].owner].mode = "down"

\* The work of a dead process whose owner row is open does not stay active
\* while another process is up (reconcile_stale_owners).
OrphansInterrupted ==
    \A a \in Agents :
        Orphaned(a) /\ owners[agents[a].owner].status = "open" ~>
            ~ IsActive(a) \/ ~ SomebodyUp
=============================================================================
