----------------------------- MODULE LiveReload -----------------------------
(***************************************************************************)
(* Source files that are edited while the program runs: the helpers that   *)
(* live_reload.py reloads in place, and the server module whose tools      *)
(* reloadable_mcp.py stages and publishes.  A file has a version, its      *)
(* contents, and a stamp, its time and size.                               *)
(***************************************************************************)
EXTENDS Naturals, FiniteSets

CONSTANTS
    Readers,     \* threads of the process
    NoReader,
    MaxEdits,
    Broken       \* versions that raise before they have executed

ASSUME ReloadAssumption ==
    /\ NoReader \notin Readers /\ MaxEdits \in Nat
    /\ Broken \subseteq 1..MaxEdits

VARIABLES
    http,        \* the process is the HTTP host, where server.py is a helper too
    source,      \* the file
    helper,      \* the module and its _SIGNATURES entry
    registry,    \* _tool_manager and the loaded digest and stamp
    staging,     \* _staging_manager, with _staging_source_state
    reader,      \* the threads
    liveLock,    \* _LOCK of live_reload
    mcpLock,     \* _reload_lock
    raced        \* history: an edit was made while a helper was reloaded

reloadVars ==
    <<http, source, helper, registry, staging, reader, liveLock, mcpLock,
      raced>>

SourceVersions == 0..MaxEdits
Mixed == MaxEdits + 1     \* a module whose reload failed half way

SourceFiles == [version : SourceVersions, stamp : SourceVersions]
File(v, s) == [version |-> v, stamp |-> s]
NoStaging == [open |-> FALSE, tools |-> {}, known |-> {}]
ReaderPcs == {"idle", "load", "define", "finish", "record", "read", "enter",
              "reread", "execute"}

ReloadInit ==
    /\ http \in BOOLEAN /\ source = File(0, 0) /\ helper = File(0, 0)
    /\ registry = [tools |-> {0}, digest |-> 0, stamp |-> 0]
    /\ staging = NoStaging
    /\ reader = [t \in Readers |-> [pc |-> "idle", got |-> File(0, 0)]]
    /\ liveLock = NoReader /\ mcpLock = NoReader /\ raced = FALSE

ReaderAt(t, pc) == reader[t].pc = pc
ReaderTo(t, pc) == reader' = [reader EXCEPT ![t].pc = pc]
ReaderGets(t, pc, f) == reader' = [reader EXCEPT ![t] = [pc |-> pc, got |-> f]]

\* An edit changes the stamp, and the contents too or not.
EditSource ==
    /\ source.stamp < MaxEdits
    /\ \E v \in {source.version, source.stamp + 1} :
          source' = File(v, source.stamp + 1)
    /\ raced' = (raced \/ liveLock # NoReader)
    /\ UNCHANGED <<http, helper, registry, staging, reader, liveLock, mcpLock>>

-----------------------------------------------------------------------------
\* reload_changed_modules, under the lock of live_reload.

ObserveHelper(t) ==
    /\ ReaderAt(t, "idle") /\ liveLock = NoReader /\ source.stamp # helper.stamp
    /\ liveLock' = t /\ ReaderTo(t, "load")
    /\ UNCHANGED <<http, source, helper, registry, staging, mcpLock, raced>>

\* importlib.reload; server.py begins to stage its tools.
LoadHelper(t) ==
    /\ ReaderAt(t, "load") /\ mcpLock = NoReader
    /\ ReaderGets(t, "define", source)
    /\ staging' = IF http THEN [staging EXCEPT !.open = TRUE] ELSE staging
    /\ UNCHANGED <<http, source, helper, registry, liveLock, mcpLock, raced>>

\* add_tool: tools that are there already stay.
WithTools(v) ==
    IF staging.open
    THEN /\ staging' = [staging EXCEPT !.tools = @ \cup {v}] /\ UNCHANGED registry
    ELSE /\ registry' = [registry EXCEPT !.tools = @ \cup {v}] /\ UNCHANGED staging

\* Its statements run; one that fails leaves what it has done.
ExecuteHelper(t) ==
    LET v == reader[t].got.version
    IN  /\ ReaderAt(t, "define") /\ mcpLock = NoReader
        /\ IF http THEN WithTools(v) ELSE UNCHANGED <<registry, staging>>
        /\ IF v \in Broken
           THEN /\ helper' = [helper EXCEPT !.version = Mixed]
                /\ liveLock' = NoReader /\ ReaderTo(t, "idle")
           ELSE /\ helper' = [helper EXCEPT !.version = v]
                /\ ReaderTo(t, IF http THEN "finish" ELSE "record")
                /\ UNCHANGED liveLock
        /\ UNCHANGED <<http, source, mcpLock, raced>>

\* finish_module_refresh: the staged tools, and the state of the file that was
\* staged, or else of the file as it is now.
Published(known) ==
    LET f == IF known = {} THEN source ELSE CHOOSE k \in known : TRUE
    IN  /\ registry' = [tools |-> IF staging.open THEN staging.tools
                                  ELSE registry.tools,
                        digest |-> f.version, stamp |-> f.stamp]
        /\ staging' = NoStaging

FinishHelper(t) ==
    /\ ReaderAt(t, "finish") /\ mcpLock = NoReader
    /\ Published(staging.known) /\ ReaderTo(t, "record")
    /\ UNCHANGED <<http, source, helper, liveLock, mcpLock, raced>>

\* The signature is read again after the reload.
RecordHelper(t) ==
    /\ ReaderAt(t, "record")
    /\ helper' = [helper EXCEPT !.stamp = source.stamp]
    /\ liveLock' = NoReader /\ ReaderTo(t, "idle")
    /\ UNCHANGED <<http, source, registry, staging, mcpLock, raced>>

-----------------------------------------------------------------------------
\* refresh_if_changed, at every list and call of tools.

\* _current_source_state and _source_state: the stamp, and then the contents.
ObserveServer(t) ==
    /\ ReaderAt(t, "idle") /\ source.stamp # registry.stamp
    /\ ReaderGets(t, "read", source)
    /\ UNCHANGED <<http, source, helper, registry, staging, liveLock, mcpLock, raced>>

\* Mutation: the contents, and then the stamp.
ReadSourceStampLast(t) == File(reader[t].got.version, source.stamp)

ReadSource(t) == File(source.version, reader[t].got.stamp)

Restamp(f) == registry' = [registry EXCEPT !.stamp = f.stamp]

\* Unlocked: the contents are those loaded, or the lock is asked for.
CompareServer(t) ==
    LET f == ReadSource(t)
    IN  /\ ReaderAt(t, "read")
        /\ IF f.version = registry.digest
           THEN Restamp(f) /\ ReaderTo(t, "idle")
           ELSE ReaderTo(t, "enter") /\ UNCHANGED registry
        /\ UNCHANGED <<http, source, helper, staging, liveLock, mcpLock, raced>>

EnterRefresh(t) ==
    /\ ReaderAt(t, "enter") /\ mcpLock = NoReader
    /\ mcpLock' = t /\ ReaderGets(t, "reread", source)
    /\ UNCHANGED <<http, source, helper, registry, staging, liveLock, raced>>

\* Under the lock the file is read again and its statements begin.
StageServer(t) ==
    LET f == ReadSource(t)
    IN  /\ ReaderAt(t, "reread")
        /\ IF f.version = registry.digest
           THEN /\ Restamp(f) /\ ReaderTo(t, "idle") /\ mcpLock' = NoReader
                /\ UNCHANGED staging
           ELSE /\ ReaderGets(t, "execute", f)
                /\ staging' = [staging EXCEPT !.open = TRUE, !.known = {f}]
                /\ UNCHANGED <<registry, mcpLock>>
        /\ UNCHANGED <<http, source, helper, liveLock, raced>>

\* They succeed and publish, or fail and discard what is staged.
ExecuteServer(t) ==
    LET f == reader[t].got
        tools == staging.tools \cup {f.version}
    IN  /\ ReaderAt(t, "execute")
        /\ IF f.version \in Broken THEN UNCHANGED registry
           ELSE registry' = [tools |-> tools, digest |-> f.version,
                             stamp |-> f.stamp]
        /\ staging' = NoStaging
        /\ mcpLock' = NoReader /\ ReaderTo(t, "idle")
        /\ UNCHANGED <<http, source, helper, liveLock, raced>>

ReloadNext ==
    \/ EditSource
    \/ \E t \in Readers :
          \/ ObserveHelper(t) \/ LoadHelper(t) \/ ExecuteHelper(t)
          \/ FinishHelper(t) \/ RecordHelper(t)
          \/ ObserveServer(t) \/ CompareServer(t) \/ EnterRefresh(t)
          \/ StageServer(t) \/ ExecuteServer(t)

ReloadSpec == ReloadInit /\ [][ReloadNext]_reloadVars

-----------------------------------------------------------------------------
\* Properties.

\* Files, registries and threads keep their domains.
ReloadTypeOK ==
    /\ http \in BOOLEAN /\ source \in SourceFiles
    /\ helper \in [version : SourceVersions \cup {Mixed}, stamp : SourceVersions]
    /\ registry \in [tools : SUBSET SourceVersions, digest : SourceVersions,
                     stamp : SourceVersions]
    /\ staging \in [open : BOOLEAN, tools : SUBSET SourceVersions,
                    known : SUBSET SourceFiles]
    /\ reader \in [Readers -> [pc : ReaderPcs, got : SourceFiles]]
    /\ liveLock \in Readers \cup {NoReader} /\ mcpLock \in Readers \cup {NoReader}

\* "swapped only after the updated server module executes cleanly": in a
\* process that refreshes by the registry alone, the tools are those of one
\* version which has executed, and nothing is staged between refreshes.
RegistryIsLoaded ==
    ~ http =>
        /\ registry.tools = {registry.digest} /\ registry.digest \notin Broken
        /\ mcpLock = NoReader => staging = NoStaging

\* "the newer digest remains visibly pending": what is served is the file's, or
\* the next request will see that it is not, whatever edits raced.
NewerIsPending ==
    ~ http /\ registry.digest # source.version => registry.stamp # source.stamp

\* A helper that is not the file's will be reloaded, unless an edit was saved
\* during a reload: that one is recorded and not loaded.
HelperIsPending ==
    ~ raced /\ liveLock = NoReader /\ helper.version # source.version =>
        helper.stamp # source.stamp

\* What is loaded is the file, or is known not to be.
ReloadsConverge == RegistryIsLoaded /\ NewerIsPending /\ HelperIsPending
=============================================================================
