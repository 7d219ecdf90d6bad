---------------------------- MODULE HostServices ----------------------------
(***************************************************************************)
(* The processes of a host and the programs that start and stop them: the  *)
(* headless commands (sonder_headless.py), the bootstrap's daemon          *)
(* (bootstrap_engine.py), and the sweep of orphans that follows an unload  *)
(* (server.py, ollama_lifecycle.py).  They know a process by the id in a   *)
(* pid file, and ids are used again.                                       *)
(***************************************************************************)
EXTENDS Naturals, FiniteSets

CONSTANTS
    Pids, NoPid,
    Callers,        \* processes that run a headless command
    MaxBorn,        \* bound: how many processes there are in all
    MaxEnds,        \* bound: how many have ended when another ends by itself
    MaxCommands     \* bound: how many commands and unloads there are

ASSUME HostAssumption ==
    NoPid \notin Pids /\ MaxBorn \in Nat /\ MaxEnds \in Nat /\ MaxCommands \in Nat

VARIABLES
    posix,          \* whether the host has no list of listeners to consult
    table,          \* the process that has each id
    born,           \* how many processes there were
    pidfile,        \* of the API server and of Ollama
    command,        \* what each command does
    commands,       \* how many were run
    sweep,          \* the unload that sweeps orphans
    accidents       \* history: what went wrong for reasons that are named below

hostVars == <<posix, table, born, pidfile, command, commands, sweep, accidents>>

\* A process listens once it is up; born is its identity.
Process == [is : {"none", "sonder_serve", "ollama", "runner", "probe", "other"},
            born : 0..MaxBorn, parent : 0..MaxBorn, up : BOOLEAN]
NoProcessAt == [is |-> "none", born |-> 0, parent |-> 0, up |-> FALSE]
Services == {"sonder_serve", "ollama"}

CommandKinds == {"start", "engine", "stop", "stop_all", "restart", "status", "bootstrap"}
CommandPcs == {"idle", "pids", "kill", "stop_daemon", "daemon", "note", "alias", "port",
               "record", "wait", "status"}
NoCommand == [pc |-> "idle", does |-> "status", pids |-> {}, read |-> NoPid]
\* An unload, whose sweep may include runners; which orphans it saw, and their
\* identities.
NoSweep == [pc |-> "idle", models |-> FALSE, seen |-> [p \in Pids |-> 0]]
\* "hurried": a server was started while another was being started; "crossed":
\* the pid file was written while a stop that had read it was to remove it;
\* "reused": an id was taken again between the check of a stop and its signal.
\* "stranger", "in_use": what a stop or a sweep ended and should not have.
Accidents == {"hurried", "crossed", "reused", "stranger", "in_use"}

HostInit ==
    /\ posix \in BOOLEAN
    /\ table = [p \in Pids |-> NoProcessAt]
    /\ born = 0
    /\ pidfile = [s \in Services |-> NoPid]
    /\ command = [c \in Callers |-> NoCommand]
    /\ commands = 0
    /\ sweep = NoSweep
    /\ accidents = {}

Running(is) == {p \in Pids : table[p].is = is}
Up(is) == {p \in Running(is) : table[p].up}
\* port_open, ollama_ok.
Reachable(is) == Up(is) # {}
AliveBorn(n) == \E p \in Pids : table[p].born = n /\ n # 0
\* The list that the host gives of who listens (_listener_pids).
Listeners == IF posix THEN {} ELSE Up("sonder_serve")

(***************************************************************************)
(* What the processes do by themselves.                                    *)
(***************************************************************************)
\* The ids that nobody remembers are interchangeable: one of them is given.
Remembered == {pidfile[s] : s \in Services}
              \cup UNION {command[c].pids \cup {command[c].read} : c \in Callers}
              \cup {p \in Pids : sweep.seen[p] # 0}
Born(p, is, parent) ==
    /\ born < MaxBorn
    /\ LET free == Running("none") IN
         /\ p \in free
         /\ p \in Remembered
            \/ p = CHOOSE q \in free : q \notin Remembered \/ free \subseteq Remembered
    /\ born' = born + 1
    /\ table' = [table EXCEPT ![p] = [is |-> is, born |-> born + 1, parent |-> parent,
                                      up |-> is \notin Services]]
Reuses(p) == IF \E c \in Callers : p \in command[c].pids THEN {"reused"} ELSE {}

\* Another program starts; the daemon starts a probe of the hardware, or a
\* runner for a model.
StartOther(p) ==
    /\ Born(p, "other", 0)
    /\ accidents' = accidents \cup Reuses(p)
    /\ UNCHANGED <<posix, pidfile, command, commands, sweep>>
SpawnWorker(p, is) ==
    /\ is \in {"runner", "probe"} /\ ~posix
    /\ \E o \in Up("ollama") : Born(p, is, table[o].born)
    /\ accidents' = accidents \cup Reuses(p)
    /\ UNCHANGED <<posix, pidfile, command, commands, sweep>>

\* A service binds its port or ends; Windows lets two API servers share it.
Bind(p) ==
    /\ table[p].is \in Services /\ ~table[p].up
    /\ table' = [table EXCEPT ![p] =
                   IF Up(@.is) = {} \/ (~posix /\ @.is = "sonder_serve")
                   THEN [@ EXCEPT !.up = TRUE] ELSE NoProcessAt]
    /\ UNCHANGED <<posix, born, pidfile, command, commands, sweep, accidents>>

Exit(p) ==
    /\ table[p].is # "none"
    /\ \/ table[p].is \in {"runner", "probe"}
       \/ born - Cardinality(Pids \ Running("none")) < MaxEnds
    /\ table' = [table EXCEPT ![p] = NoProcessAt]
    /\ UNCHANGED <<posix, born, pidfile, command, commands, sweep, accidents>>

(***************************************************************************)
(* The commands.                                                           *)
(***************************************************************************)
\* What a command no longer needs it forgets.
Goes(c, next) == command' = [command EXCEPT ![c] = next]
Is(pc, does) == [NoCommand EXCEPT !.pc = pc, !.does = does]
Returns(c) == Goes(c, NoCommand)
Reached(c, pc) == command[c].pc = pc
processes == <<posix, table, born>>
bookkeeping == <<commands, sweep, accidents>>

Invoke(c, does) ==
    /\ Reached(c, "idle") /\ c = CHOOSE d \in Callers : Reached(d, "idle")
    /\ commands < MaxCommands
    /\ commands' = commands + 1
    /\ Goes(c, Is(CASE does \in {"stop", "stop_all", "restart"} -> "pids"
                     [] does = "status" -> "status"
                     [] OTHER -> "daemon", does))
    /\ UNCHANGED <<processes, pidfile, sweep, accidents>>

\* stop_pid of the API server: the recorded process and the listeners, if they
\* are servers of this repository.
IsServer(p) == table[p].is = "sonder_serve"
Recorded(s) == {pidfile[s]} \ {NoPid}
\* A plausible bug: whatever has the recorded id is taken for the server.
AliveToStop == {p \in Recorded("sonder_serve") \cup Listeners : table[p].is # "none"}
ServersToStop == {p \in Recorded("sonder_serve") \cup Listeners : IsServer(p)}

\* A restart is a start from here.
AfterStop(c) ==
    CASE command[c].does = "stop" -> Returns(c)
      [] command[c].does = "stop_all" -> Goes(c, Is("stop_daemon", "stop_all"))
      [] OTHER -> Goes(c, Is("daemon", "start"))
ReadPids(c) ==
    /\ Reached(c, "pids")
    /\ Goes(c, [Is("kill", command[c].does) EXCEPT !.pids = ServersToStop])
    /\ UNCHANGED <<processes, pidfile, bookkeeping>>

\* A signal to a process that is gone is an error on POSIX, and the pid file
\* stays.
StopServers(c) ==
    /\ Reached(c, "kill")
    /\ ~(posix /\ \E p \in command[c].pids : table[p].is = "none")
    /\ LET strangers == {p \in command[c].pids : table[p].is # "none" /\ ~IsServer(p)} IN
         /\ pidfile' = [pidfile EXCEPT !["sonder_serve"] = NoPid]
         /\ accidents' = accidents
              \cup IF strangers = {} THEN {} ELSE {"stranger"}
    /\ table' = [p \in Pids |-> IF p \in command[c].pids THEN NoProcessAt ELSE table[p]]
    /\ AfterStop(c)
    /\ UNCHANGED <<posix, born, commands, sweep>>
StopFails(c) ==
    /\ Reached(c, "kill")
    /\ posix /\ \E p \in command[c].pids : table[p].is = "none"
    /\ AfterStop(c)
    /\ UNCHANGED <<processes, pidfile, bookkeeping>>

\* stop_pid of Ollama: whatever process has the recorded id.
StopDaemon(c) ==
    /\ Reached(c, "stop_daemon")
    /\ table' = [p \in Pids |-> IF p \in Recorded("ollama") THEN NoProcessAt ELSE table[p]]
    /\ pidfile' = [pidfile EXCEPT !["ollama"] = NoPid]
    /\ Returns(c)
    /\ UNCHANGED <<posix, born, bookkeeping>>

\* start_ollama, ensure_ollama_running: a daemon that does not answer is
\* started; the bootstrap keeps no record of it.
StartDaemon(c) ==
    /\ Reached(c, "daemon")
    /\ \/ /\ Reachable("ollama")
          /\ Goes(c, Is("alias", command[c].does))
          /\ UNCHANGED <<table, born, accidents>>
       \/ /\ ~Reachable("ollama")
          /\ \E p \in Pids :
               /\ Born(p, "ollama", 0)
               /\ accidents' = accidents \cup Reuses(p)
               /\ IF command[c].does = "bootstrap" THEN Returns(c)
                  ELSE Goes(c, [Is("note", command[c].does) EXCEPT !.read = p])
    /\ UNCHANGED <<posix, pidfile, commands, sweep>>
NoteDaemon(c) ==
    /\ Reached(c, "note")
    /\ pidfile' = [pidfile EXCEPT !["ollama"] = command[c].read]
    /\ Goes(c, Is("alias", command[c].does))
    /\ UNCHANGED <<processes, bookkeeping>>

\* It comes up within the wait or the command ends; so it does if the alias
\* cannot be made.
EnsureAlias(c) ==
    /\ Reached(c, "alias")
    /\ \/ /\ Reachable("ollama") /\ command[c].does = "start"
          /\ Goes(c, Is("port", "start"))
       \/ Returns(c)
    /\ UNCHANGED <<processes, pidfile, bookkeeping>>

\* _managed_pid: a pid file that does not name a server is repaired where the
\* listeners are known.
Repaired ==
    IF \/ \E p \in Recorded("sonder_serve") : IsServer(p)
       \/ Listeners = {}
    THEN {pidfile["sonder_serve"]} ELSE Listeners

\* start_sonder: a port that is served needs no server.
CheckPort(c) ==
    /\ Reached(c, "port") /\ Reachable("sonder_serve")
    /\ \E p \in Repaired : pidfile' = [pidfile EXCEPT !["sonder_serve"] = p]
    /\ Goes(c, Is("status", "status"))
    /\ UNCHANGED <<processes, bookkeeping>>
Starting == {d \in Callers : command[d].pc \in {"record", "wait"}}
            \cup (Running("sonder_serve") \ Up("sonder_serve"))
MayStart == ~Reachable("sonder_serve")
StartServer(c) ==
    /\ Reached(c, "port") /\ MayStart
    /\ \E p \in Pids :
         /\ Born(p, "sonder_serve", 0)
         /\ accidents' = accidents \cup Reuses(p)
              \cup IF Starting = {} THEN {} ELSE {"hurried"}
         /\ Goes(c, [Is("record", "start") EXCEPT !.read = p])
    /\ UNCHANGED <<posix, pidfile, commands, sweep>>
RecordServer(c) ==
    /\ Reached(c, "record")
    /\ pidfile' = [pidfile EXCEPT !["sonder_serve"] = command[c].read]
    /\ Goes(c, Is("wait", "start"))
    /\ accidents' = accidents
         \cup IF \E d \in Callers : Reached(d, "kill") THEN {"crossed"} ELSE {}
    /\ UNCHANGED <<processes, commands, sweep>>

\* Once the port is served, the listener is recorded; or the wait ends.
AwaitServer(c) ==
    /\ Reached(c, "wait")
    /\ \/ /\ Reachable("sonder_serve")
          /\ \E p \in IF Listeners = {} THEN {pidfile["sonder_serve"]} ELSE Listeners :
                pidfile' = [pidfile EXCEPT !["sonder_serve"] = p]
       \/ ~Reachable("sonder_serve") /\ UNCHANGED pidfile
    /\ Goes(c, Is("status", "status"))
    /\ UNCHANGED <<processes, bookkeeping>>

ShowStatus(c) ==
    /\ Reached(c, "status")
    /\ \E p \in Repaired : pidfile' = [pidfile EXCEPT !["sonder_serve"] = p]
    /\ Returns(c)
    /\ UNCHANGED <<processes, bookkeeping>>

(***************************************************************************)
(* The sweep after an unload, where processes can be listed.  A model that *)
(* is resident is one of a live daemon's runners.                          *)
(***************************************************************************)
HasLiveParent(p) == AliveBorn(table[p].parent)
Resident == \E p \in Running("runner") : HasLiveParent(p)

\* All tiers, or one of them; runners are swept only if, after all, none is
\* resident, and the daemon said so.
Unload(all) ==
    /\ sweep.pc = "idle" /\ ~posix
    /\ commands < MaxCommands
    /\ commands' = commands + 1
    /\ sweep' = [NoSweep EXCEPT !.pc = "first",
                                !.models = all /\ Reachable("ollama") /\ ~Resident]
    /\ UNCHANGED <<processes, pidfile, command, accidents>>

Orphans(models) ==
    {p \in Running("probe") \cup IF models THEN Running("runner") ELSE {} :
       ~HasLiveParent(p)}
Identities(models) ==
    [p \in Pids |-> IF p \in Orphans(models) THEN table[p].born ELSE 0]

FirstLook ==
    /\ sweep.pc = "first"
    /\ sweep' = IF Orphans(sweep.models) = {} THEN NoSweep
                ELSE [sweep EXCEPT !.pc = "second", !.seen = Identities(sweep.models)]
    /\ UNCHANGED <<processes, pidfile, command, commands, accidents>>
SecondLook ==
    /\ sweep.pc = "second"
    /\ sweep' = [sweep EXCEPT !.pc = "terminate",
                   !.seen = [p \in Pids |-> IF @[p] = Identities(sweep.models)[p]
                                            THEN @[p] ELSE 0]]
    /\ UNCHANGED <<processes, pidfile, command, commands, accidents>>

\* A plausible bug: that there is a process with the id is enough.
SomeProcess(p) == table[p].is # "none"

\* _terminate_windows_process: the handle that is terminated is that of a
\* process with the identity that was seen.
SameProcess(p) == table[p].born = sweep.seen[p]
Terminate(p) ==
    /\ sweep.pc = "terminate" /\ sweep.seen[p] # 0
    /\ sweep' = [sweep EXCEPT !.seen[p] = 0]
    /\ IF SameProcess(p)
       THEN /\ table' = [table EXCEPT ![p] = NoProcessAt]
            /\ accidents' = IF table[p].is \in {"probe", "runner"} /\ ~HasLiveParent(p)
                            THEN accidents ELSE accidents \cup {"in_use"}
       ELSE UNCHANGED <<table, accidents>>
    /\ UNCHANGED <<posix, born, pidfile, command, commands>>
EndSweep ==
    /\ sweep.pc = "terminate" /\ \A p \in Pids : sweep.seen[p] = 0
    /\ sweep' = NoSweep
    /\ UNCHANGED <<processes, pidfile, command, commands, accidents>>

HostNext ==
    \/ \E p \in Pids :
         \/ StartOther(p) \/ \E is \in {"runner", "probe"} : SpawnWorker(p, is)
         \/ Bind(p) \/ Exit(p) \/ Terminate(p)
    \/ \E c \in Callers :
         \/ \E does \in CommandKinds : Invoke(c, does)
         \/ ReadPids(c) \/ StopServers(c) \/ StopFails(c) \/ StopDaemon(c)
         \/ StartDaemon(c) \/ NoteDaemon(c) \/ EnsureAlias(c)
         \/ CheckPort(c) \/ StartServer(c) \/ RecordServer(c) \/ AwaitServer(c)
         \/ ShowStatus(c)
    \/ \E all \in BOOLEAN : Unload(all)
    \/ FirstLook \/ SecondLook \/ EndSweep

HostSpec == HostInit /\ [][HostNext]_hostVars
-----------------------------------------------------------------------------
\* Processes, pid files, commands and the sweep are well formed.
HostTypeOK ==
    /\ posix \in BOOLEAN /\ table \in [Pids -> Process] /\ born \in 0..MaxBorn
    /\ pidfile \in [Services -> Pids \cup {NoPid}]
    /\ command \in [Callers -> [pc : CommandPcs, does : CommandKinds,
                                 pids : SUBSET Pids, read : Pids \cup {NoPid}]]
    /\ commands \in 0..MaxCommands
    /\ sweep \in [pc : {"idle", "first", "second", "terminate"},
                   models : BOOLEAN, seen : [Pids -> 0..MaxBorn]]
    /\ accidents \subseteq Accidents

\* A stop ends servers of this repository only, whatever has their old ids by
\* now: a process dies, its id is used again, and the pid file still has it.
OnlyServersStopped == "stranger" \in accidents => "reused" \in accidents

\* Whatever starts, crashes and stops there were, a server that answers can be
\* stopped: it is recorded, or about to be, or its host lists it.  Not so if it
\* was started while another was being started, or recorded while a stop was
\* about to remove the record.
ServersAreManaged ==
    \A p \in Up("sonder_serve") :
        \/ p \in Recorded("sonder_serve") \cup Listeners
        \/ \E c \in Callers : Reached(c, "record") /\ command[c].read = p
        \/ accidents \cap {"hurried", "crossed"} # {}

\* A sweep ends probes and runners that nobody uses, though processes end and
\* ids are used again between its looks.
OnlyOrphansSwept == "in_use" \notin accidents

ServersSound == OnlyServersStopped /\ ServersAreManaged /\ OnlyOrphansSwept
=============================================================================
