------------------------------ MODULE AppLocal ------------------------------
\* The application's own server on the same device: started with the
\* application or by a button, tracked by its process, stopped with the
\* application, and the bundled system it runs, replaced by a clone.
EXTENDS Naturals

CONSTANTS
    Children,        \* the server processes the application starts
    NoChild,
    Outside,         \* a server the application did not start
    Callers,         \* the calls of startServer that may overlap
    AutoStart             \* the one of _autoStartServer

ASSUME LocalAssumption ==
    /\ NoChild \notin Children /\ Outside \notin Children /\ NoChild # Outside
    /\ AutoStart \in Callers

VARIABLES
    app,             \* what the application holds and its settings
    children,        \* what each process it started is doing
    port,            \* who listens on the server's port
    calls,           \* the calls of startServer in flight
    loose,           \* processes whose tracking a later start took, or whose
                     \* stop failed
    folder,          \* local-system, local-system-next and local-system-backup
    update           \* how far the replacement of local-system is

localVars == <<app, children, port, calls, loose, folder, update>>

ServerLives(c) == children[c] \in {"booting", "serving"}
CopyStates == {"absent", "partial", "whole"}
UpdateSteps == {"idle", "clearing", "cloning", "moving", "placing"}

LocalInit ==
    /\ app = [open |-> TRUE, tracked |-> NoChild, starting |-> FALSE, started |-> FALSE,
              hosted |-> FALSE, keep |-> FALSE]
    /\ children = [c \in Children |-> "none"]
    /\ port \in {NoChild, Outside}
    /\ calls = [k \in Callers |-> "idle"]
    /\ loose = {}
    /\ folder = [system |-> "whole", next |-> "absent", backup |-> "absent",
                 checkout |-> FALSE]
    /\ update = "idle"

folderVars == <<folder, update>>

-----------------------------------------------------------------------------
\* startServer

\* _autoStartServer of a start or a change of settings, or a button.
CallStart(k) ==
    /\ app.open /\ calls[k] = "idle"
    /\ IF k = AutoStart THEN ~app.started /\ ~app.starting /\ ~app.hosted
                   ELSE ~app.hosted
    /\ calls' = [calls EXCEPT ![k] = "probing"]
    /\ app' = IF k = AutoStart THEN [app EXCEPT !.starting = TRUE] ELSE app
    /\ UNCHANGED <<children, port, loose, folderVars>>

\* The call returns; what the automatic one says is remembered.
Returned(k, ok, tracked) ==
    /\ calls' = [calls EXCEPT ![k] = "idle"]
    /\ app' = IF k = AutoStart
              THEN [app EXCEPT !.starting = FALSE, !.started = ok, !.tracked = tracked]
              ELSE [app EXCEPT !.tracked = tracked]

\* The port is tried; a server that still starts does not answer.
Probe(k) ==
    /\ calls[k] = "probing"
    /\ IF port # NoChild THEN Returned(k, TRUE, app.tracked)
       ELSE IF folder.system = "absent" THEN Returned(k, FALSE, app.tracked)
       ELSE calls' = [calls EXCEPT ![k] = "spawning"] /\ UNCHANGED app
    /\ UNCHANGED <<children, port, loose, folderVars>>

\* A process yet to be started; which one makes no difference.
Unborn == LET none == {c \in Children : children[c] = "none"} IN
          IF none = {} THEN {} ELSE {CHOOSE c \in none : TRUE}

\* Process.start and _trackManagedServer; with keepServerRunning the server is
\* handed to the headless supervisor instead.
StartProcess(k) ==
    /\ calls[k] = "spawning"
    /\ IF app.keep
       THEN /\ Returned(k, TRUE, app.tracked)
            /\ port' \in IF port = NoChild THEN {NoChild, Outside} ELSE {port}
            /\ UNCHANGED <<children, loose>>
       ELSE /\ \E c \in Unborn :
                 /\ children' = [children EXCEPT ![c] = "booting"]
                 /\ Returned(k, TRUE, c)
            /\ loose' = loose \cup ({app.tracked} \ {NoChild})
            /\ UNCHANGED port
    /\ UNCHANGED folderVars

\* A process takes the port, or exits because it is taken.
Boot(c) ==
    /\ children[c] = "booting"
    /\ IF port = NoChild
       THEN port' = c /\ children' = [children EXCEPT ![c] = "serving"]
       ELSE children' = [children EXCEPT ![c] = "gone"] /\ UNCHANGED port
    /\ UNCHANGED <<app, calls, loose, folderVars>>

Crash(c) ==
    /\ ServerLives(c)
    /\ children' = [children EXCEPT ![c] = "gone"]
    /\ port' = IF port = c THEN NoChild ELSE port
    /\ UNCHANGED <<app, calls, loose, folderVars>>

\* Mutation: an exit clears the tracking, whoever exited.
ForgetTracked(c) == [app EXCEPT !.tracked = NoChild]

\* The exit of a process is noticed (exitCode.then of _trackManagedServer).
Forgotten(c) == IF app.tracked = c THEN [app EXCEPT !.tracked = NoChild] ELSE app

NoticeExit(c) ==
    /\ app.open /\ children[c] = "gone"
    /\ children' = [children EXCEPT ![c] = "reaped"]
    /\ app' = Forgotten(c)
    /\ UNCHANGED <<port, calls, loose, folderVars>>

-----------------------------------------------------------------------------
\* Stopping

Killed(c) ==
    /\ children' = IF c = NoChild \/ ~ServerLives(c) THEN children
                   ELSE [children EXCEPT ![c] = "gone"]
    /\ port' = IF port = c THEN NoChild ELSE port

\* stopServers: the tracked process is forgotten whether or not it ends.
StopServer ==
    /\ app.open /\ ~app.hosted /\ app.tracked # NoChild
    /\ \/ Killed(app.tracked) /\ UNCHANGED loose
       \/ loose' = loose \cup {app.tracked} /\ UNCHANGED <<children, port>>
    /\ app' = [app EXCEPT !.tracked = NoChild]
    /\ UNCHANGED <<calls, folderVars>>

\* _update: a host launcher now controls the server.
UseLauncher ==
    /\ app.open /\ ~app.hosted
    /\ IF app.started /\ ~app.keep
       THEN /\ Killed(app.tracked)
            /\ app' = [app EXCEPT !.hosted = TRUE, !.tracked = NoChild, !.started = FALSE]
       ELSE app' = [app EXCEPT !.hosted = TRUE] /\ UNCHANGED <<children, port>>
    /\ UNCHANGED <<calls, loose, folderVars>>

ChangeKeep ==
    /\ app.open /\ app' = [app EXCEPT !.keep = ~@]
    /\ UNCHANGED <<children, port, calls, loose, folderVars>>

\* The application closes (dispose, detached); the calls it made are dropped.
Close ==
    /\ app.open
    /\ IF app.started /\ ~app.hosted /\ ~app.keep
       THEN /\ Killed(app.tracked)
            /\ app' = [app EXCEPT !.open = FALSE, !.tracked = NoChild]
       ELSE app' = [app EXCEPT !.open = FALSE] /\ UNCHANGED <<children, port>>
    /\ calls' = [k \in Callers |-> "idle"]
    /\ update' = "idle"
    /\ UNCHANGED <<loose, folder>>

-----------------------------------------------------------------------------
\* _replaceBundledSystemFromGit

BeginUpdate ==
    /\ app.open /\ update = "idle" /\ folder.system = "whole" /\ ~folder.checkout
    /\ update' = "clearing"
    /\ UNCHANGED <<app, children, port, calls, loose, folder>>

\* Both other folders are deleted.
ClearCopies ==
    /\ update = "clearing"
    /\ \/ folder' = [folder EXCEPT !.next = "absent", !.backup = "absent"]
          /\ update' = "cloning"
       \/ \E next \in CopyStates, backup \in CopyStates :
             /\ folder' = [folder EXCEPT !.next = next, !.backup = backup]
             /\ {next, backup} \subseteq {"absent", "partial"}
             /\ update' = "idle"
    /\ UNCHANGED <<app, children, port, calls, loose>>

\* git clone, which may fail half way.
Clone ==
    /\ update = "cloning"
    /\ \/ folder' = [folder EXCEPT !.next = "whole"] /\ update' = "moving"
       \/ folder' = [folder EXCEPT !.next = "partial"] /\ update' = "idle"
    /\ UNCHANGED <<app, children, port, calls, loose>>

MoveSystemAside ==
    /\ update = "moving"
    /\ folder' = [folder EXCEPT !.backup = folder.system, !.system = "absent"]
    /\ update' = "placing"
    /\ UNCHANGED <<app, children, port, calls, loose>>

\* The second rename, which may fail as well.
PutCloneInPlace ==
    /\ update = "placing"
    /\ \/ folder' = [folder EXCEPT !.system = folder.next, !.next = "absent",
                                   !.checkout = TRUE]
       \/ UNCHANGED folder
    /\ update' = "idle"
    /\ UNCHANGED <<app, children, port, calls, loose>>

LocalNext ==
    \/ \E k \in Callers : CallStart(k) \/ Probe(k) \/ StartProcess(k)
    \/ \E c \in Children : Boot(c) \/ Crash(c) \/ NoticeExit(c)
    \/ StopServer \/ UseLauncher \/ ChangeKeep \/ Close
    \/ BeginUpdate \/ ClearCopies \/ Clone \/ MoveSystemAside \/ PutCloneInPlace

LocalSpec == LocalInit /\ [][LocalNext]_localVars

-----------------------------------------------------------------------------

LocalTypeOK ==
    /\ app.tracked \in Children \cup {NoChild}
    /\ \A c \in Children : children[c] \in {"none", "booting", "serving", "gone", "reaped"}
    /\ port \in Children \cup {NoChild, Outside}
    /\ \A k \in Callers : calls[k] \in {"idle", "probing", "spawning"}
    /\ {folder.system, folder.next, folder.backup} \subseteq CopyStates
    /\ update \in UpdateSteps

\* A server the application started is one it can stop: it is tracked until it
\* ends, unless a second start overlapped the first or its stop failed, or the
\* application has left it behind (_trackManagedServer).
ServersAreTracked ==
    \A c \in Children \ loose : app.open /\ ServerLives(c) => app.tracked = c

\* A closed application that started its server leaves none of them running,
\* but where its settings say so (didChangeAppLifecycleState).
ClosedLeavesNothing ==
    ~app.open /\ app.started /\ ~app.hosted /\ ~app.keep =>
       \A c \in Children \ loose : ~ServerLives(c)

\* At any moment of a replacement there is a whole copy of the system, in place
\* or beside it (_replaceBundledSystemFromGit).
ACopyRemains == "whole" \in {folder.system, folder.backup}

LocalSound == ServersAreTracked /\ ClosedLeavesNothing /\ ACopyRemains
=============================================================================
