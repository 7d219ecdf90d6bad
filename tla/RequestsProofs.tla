--------------------------- MODULE RequestsProofs ---------------------------
(***************************************************************************)
(* Theorems of what answers a request, for any number of threads,          *)
(* requests, turns, steps and versions of the source: the live reload of   *)
(* source files, the agent's tool loop, the application's own server, the  *)
(* conversations of the HTTP server, the turns of a session and the chats  *)
(* of the application.  Each has its own specification and its own         *)
(* inductive invariant; the last section puts them together.               *)
(***************************************************************************)
EXTENDS MCRequests, FiniteSetTheorems, SequenceTheorems, TLAPS

(***************************************************************************)
(* Live reload.  What each thread has read is a state the file has been    *)
(* in: a stamp that is still the file's goes with the file's contents.     *)
(***************************************************************************)

\* f was the file once, and is the file now if it has its stamp.
Observed(f) ==
    /\ f.stamp <= source.stamp
    /\ f.stamp = source.stamp => f.version = source.version

Refreshing == {"reread", "execute"}
Reloading == {"load", "define", "finish", "record"}

ReloadLocks ==
    \A t \in Readers :
        /\ (mcpLock = t) <=> reader[t].pc \in Refreshing
        /\ (liveLock = t) <=> reader[t].pc \in Reloading
        /\ reader[t].pc = "finish" => http

RegistryInv ==
    ~ http =>
        /\ Observed(File(registry.digest, registry.stamp))
        /\ registry.tools = {registry.digest} /\ registry.digest \notin Broken
        /\ staging.tools = {}
        /\ mcpLock = NoReader => staging = NoStaging
        /\ \A t \in Readers : reader[t].pc = "reread" => staging = NoStaging

HelperInv ==
    /\ helper.stamp <= source.stamp
    /\ ~ raced =>
        /\ liveLock = NoReader => Observed(helper)
        /\ \A t \in Readers :
            /\ reader[t].pc \in {"load", "define"} => helper.stamp # source.stamp
            /\ reader[t].pc = "define" => reader[t].got = source
            /\ reader[t].pc \in {"finish", "record"} =>
                  helper.version = source.version

ReloadInv ==
    /\ ReloadTypeOK
    /\ \A t \in Readers : Observed(reader[t].got)
    /\ ReloadLocks /\ RegistryInv /\ HelperInv

LEMMA ReloadInvGives == ReloadInv => ReloadsConverge
BY ReloadAssumption, SMT
DEF ReloadInv, ReloadsConverge, RegistryIsLoaded, NewerIsPending, HelperIsPending,
    RegistryInv, HelperInv, Observed, File, ReloadTypeOK, SourceFiles, SourceVersions

LEMMA ReloadInvInit == ReloadInit => ReloadInv
<1> SUFFICES ASSUME ReloadInit
             PROVE  ReloadInv
  OBVIOUS
<1>1. ReloadTypeOK
  BY ReloadAssumption, SMT
  DEF ReloadInit, ReloadTypeOK, File, NoStaging, SourceFiles, SourceVersions, Mixed,
      ReaderPcs
<1>2. \A t \in Readers : Observed(reader[t].got)
  BY ReloadAssumption, SMT DEF ReloadInit, Observed, File
<1>3. ReloadLocks
  BY ReloadAssumption, SMT DEF ReloadInit, ReloadLocks, Refreshing, Reloading
<1>4. RegistryInv /\ HelperInv
  BY ReloadAssumption, SMT
  DEF ReloadInit, RegistryInv, HelperInv, Observed, File, NoStaging
<1> QED
  BY <1>1, <1>2, <1>3, <1>4 DEF ReloadInv

\* The domains of the parts that a step may replace.
ReaderRows == [Readers -> [pc : ReaderPcs, got : SourceFiles]]
StagingRows ==
    [open : BOOLEAN, tools : SUBSET SourceVersions, known : SUBSET SourceFiles]
RegistryRows ==
    [tools : SUBSET SourceVersions, digest : SourceVersions, stamp : SourceVersions]

LEMMA ReaderToTyped ==
    ASSUME NEW t \in Readers, NEW pc \in ReaderPcs, reader \in ReaderRows,
           ReaderTo(t, pc)
    PROVE  reader' \in ReaderRows
BY SMT DEF ReaderTo, ReaderRows

LEMMA ReaderGetsTyped ==
    ASSUME NEW t \in Readers, NEW pc \in ReaderPcs, NEW f \in SourceFiles,
           reader \in ReaderRows, ReaderGets(t, pc, f)
    PROVE  reader' \in ReaderRows
BY SMT DEF ReaderGets, ReaderRows

LEMMA ReadSourceTyped ==
    ASSUME NEW t \in Readers, ReloadTypeOK
    PROVE  /\ ReadSource(t) \in SourceFiles
           /\ ReadSource(t).version = source.version
           /\ ReadSource(t).stamp = reader[t].got.stamp
BY SMT DEF ReloadTypeOK, ReadSource, File, SourceFiles

LEMMA StagingTyped ==
    ASSUME NEW s \in StagingRows, NEW known \in SUBSET SourceFiles
    PROVE  /\ [s EXCEPT !.open = TRUE] \in StagingRows
           /\ [s EXCEPT !.open = TRUE, !.known = known] \in StagingRows
           /\ [s EXCEPT !.open = TRUE].tools = s.tools
           /\ [s EXCEPT !.open = TRUE, !.known = known].tools = s.tools
BY Zenon DEF StagingRows

LEMMA EditSourceKeeps == ReloadInv /\ EditSource => ReloadInv'
<1> SUFFICES ASSUME ReloadInv, EditSource
             PROVE  ReloadInv'
  OBVIOUS
<1>1. PICK v \in {source.version, source.stamp + 1} :
         source' = File(v, source.stamp + 1)
  BY SMT DEF EditSource
<1>2. /\ source' \in SourceFiles
      /\ source'.stamp = source.stamp + 1 /\ source.stamp \in Nat
  BY <1>1, ReloadAssumption, SMT
  DEF EditSource, ReloadInv, ReloadTypeOK, SourceFiles, SourceVersions, File
<1>3. ReloadTypeOK'
  BY <1>2, SMT DEF EditSource, ReloadInv, ReloadTypeOK
<1>4. \A t \in Readers : Observed(reader[t].got)'
  BY <1>2, SMT
  DEF EditSource, ReloadInv, ReloadTypeOK, Observed, SourceFiles, SourceVersions
<1>5. ReloadLocks'
  BY SMT DEF EditSource, ReloadInv, ReloadLocks
<1>6. RegistryInv'
  BY <1>2, SMT
  DEF EditSource, ReloadInv, ReloadTypeOK, RegistryInv, Observed, File,
  SourceVersions
<1>7. ~ raced' => ~ raced /\ liveLock = NoReader
  BY Zenon DEF EditSource
<1>8. UNCHANGED <<helper, liveLock, reader>>
  BY DEF EditSource
<1>9. HelperInv'
  BY <1>2, <1>7, <1>8, ReloadAssumption, SMT
  DEF ReloadInv, ReloadTypeOK, ReloadLocks, Reloading, HelperInv, Observed,
  SourceVersions
<1> QED
  BY <1>3, <1>4, <1>5, <1>6, <1>9 DEF ReloadInv

LEMMA RecordHelperKeeps ==
    ASSUME NEW t \in Readers, ReloadInv, RecordHelper(t)
    PROVE  ReloadInv'
<1>1. ReloadTypeOK'
  BY ReloadAssumption, SMT
  DEF RecordHelper, ReaderAt, ReaderTo, ReloadInv, ReloadTypeOK,
      SourceFiles, ReaderPcs, NoStaging
<1>2. (\A u \in Readers : Observed(reader[u].got))'
  BY ReloadAssumption, SMT
  DEF RecordHelper, ReaderAt, ReaderTo, ReloadInv, ReloadTypeOK,
      SourceFiles, SourceVersions, Observed, File
<1>3. ReloadLocks'
  BY ReloadAssumption, SMT
  DEF RecordHelper, ReaderAt, ReaderTo, ReloadInv, ReloadTypeOK,
      ReloadLocks, Refreshing, Reloading
<1>4. RegistryInv'
  BY ReloadAssumption, SMT
  DEF RecordHelper, ReaderAt, ReaderTo, ReloadInv, ReloadTypeOK,
      SourceFiles, SourceVersions, ReloadLocks, Refreshing, Reloading,
      RegistryInv, Observed, NoStaging, File
<1>5. HelperInv'
  BY ReloadAssumption, SMT
  DEF RecordHelper, ReaderAt, ReaderTo, ReloadInv, ReloadTypeOK,
      SourceFiles, SourceVersions, ReloadLocks, Reloading, HelperInv,
      Observed, Mixed
<1> QED
  BY <1>1, <1>2, <1>3, <1>4, <1>5 DEF ReloadInv

LEMMA ObserveServerKeeps ==
    ASSUME NEW t \in Readers, ReloadInv, ObserveServer(t)
    PROVE  ReloadInv'
<1>1. ReloadTypeOK'
  BY ReloadAssumption, SMT
  DEF ObserveServer, ReaderAt, ReaderGets, ReloadInv, ReloadTypeOK,
      SourceFiles, ReaderPcs, NoStaging
<1>2. (\A u \in Readers : Observed(reader[u].got))'
  BY ReloadAssumption, SMT
  DEF ObserveServer, ReaderAt, ReaderGets, ReloadInv, ReloadTypeOK,
      SourceFiles, SourceVersions, Observed, File
<1>3. ReloadLocks'
  BY ReloadAssumption, SMT
  DEF ObserveServer, ReaderAt, ReaderGets, ReloadInv, ReloadTypeOK,
      ReloadLocks, Refreshing, Reloading
<1>4. RegistryInv'
  BY ReloadAssumption, SMT
  DEF ObserveServer, ReaderAt, ReaderGets, ReloadInv, ReloadTypeOK,
      SourceFiles, SourceVersions, ReloadLocks, Refreshing, Reloading,
      RegistryInv, Observed, NoStaging, File
<1>5. HelperInv'
  BY ReloadAssumption, SMT
  DEF ObserveServer, ReaderAt, ReaderGets, ReloadInv, ReloadTypeOK,
      SourceFiles, SourceVersions, ReloadLocks, Reloading, HelperInv,
      Observed, Mixed
<1> QED
  BY <1>1, <1>2, <1>3, <1>4, <1>5 DEF ReloadInv

LEMMA EnterRefreshKeeps ==
    ASSUME NEW t \in Readers, ReloadInv, EnterRefresh(t)
    PROVE  ReloadInv'
<1>1. ReloadTypeOK'
  BY ReloadAssumption, SMT
  DEF EnterRefresh, ReaderAt, ReaderGets, ReloadInv, ReloadTypeOK,
      SourceFiles, ReaderPcs, NoStaging
<1>2. (\A u \in Readers : Observed(reader[u].got))'
  BY ReloadAssumption, SMT
  DEF EnterRefresh, ReaderAt, ReaderGets, ReloadInv, ReloadTypeOK,
      SourceFiles, SourceVersions, Observed, File
<1>3. ReloadLocks'
  BY ReloadAssumption, SMT
  DEF EnterRefresh, ReaderAt, ReaderGets, ReloadInv, ReloadTypeOK,
      ReloadLocks, Refreshing, Reloading
<1>4. RegistryInv'
  BY ReloadAssumption, SMT
  DEF EnterRefresh, ReaderAt, ReaderGets, ReloadInv, ReloadTypeOK,
      SourceFiles, SourceVersions, ReloadLocks, Refreshing, Reloading,
      RegistryInv, Observed, NoStaging, File
<1>5. HelperInv'
  BY ReloadAssumption, SMT
  DEF EnterRefresh, ReaderAt, ReaderGets, ReloadInv, ReloadTypeOK,
      SourceFiles, SourceVersions, ReloadLocks, Reloading, HelperInv,
      Observed, Mixed
<1> QED
  BY <1>1, <1>2, <1>3, <1>4, <1>5 DEF ReloadInv

LEMMA ExecuteServerKeeps ==
    ASSUME NEW t \in Readers, ReloadInv, ExecuteServer(t)
    PROVE  ReloadInv'
<1>1. ReloadTypeOK'
  BY ReloadAssumption, SMT
  DEF ExecuteServer, ReaderAt, ReaderTo, ReloadInv, ReloadTypeOK,
      SourceFiles, ReaderPcs, NoStaging
<1>2. (\A u \in Readers : Observed(reader[u].got))'
  BY ReloadAssumption, SMT
  DEF ExecuteServer, ReaderAt, ReaderTo, ReloadInv, ReloadTypeOK,
      SourceFiles, SourceVersions, Observed, File
<1>3. ReloadLocks'
  BY ReloadAssumption, SMT
  DEF ExecuteServer, ReaderAt, ReaderTo, ReloadInv, ReloadTypeOK,
      ReloadLocks, Refreshing, Reloading
<1>4. RegistryInv'
  BY ReloadAssumption, SMT
  DEF ExecuteServer, ReaderAt, ReaderTo, ReloadInv, ReloadTypeOK,
      SourceFiles, SourceVersions, ReloadLocks, Refreshing, Reloading,
      RegistryInv, Observed, NoStaging, File
<1>5. HelperInv'
  BY ReloadAssumption, SMT
  DEF ExecuteServer, ReaderAt, ReaderTo, ReloadInv, ReloadTypeOK,
      SourceFiles, SourceVersions, ReloadLocks, Reloading, HelperInv,
      Observed, Mixed
<1> QED
  BY <1>1, <1>2, <1>3, <1>4, <1>5 DEF ReloadInv

LEMMA FinishHelperKeeps ==
    ASSUME NEW t \in Readers, ReloadInv, FinishHelper(t)
    PROVE  ReloadInv'
<1> DEFINE f == IF staging.known = {} THEN source ELSE CHOOSE k \in staging.known : TRUE
<1>0. f \in SourceFiles
  BY SMT DEF ReloadInv, ReloadTypeOK
<1> HIDE DEF f
<1>1. ReloadTypeOK'
  BY <1>0, ReloadAssumption, SMT
  DEF FinishHelper, ReaderAt, ReaderTo, Published, ReloadInv, ReloadTypeOK,
      SourceFiles, ReaderPcs, NoStaging, f
<1>2. (\A u \in Readers : Observed(reader[u].got))'
  BY <1>0, ReloadAssumption, SMT
  DEF FinishHelper, ReaderAt, ReaderTo, Published, ReloadInv, ReloadTypeOK,
      SourceFiles, SourceVersions, Observed, File, f
<1>3. ReloadLocks'
  BY <1>0, ReloadAssumption, SMT
  DEF FinishHelper, ReaderAt, ReaderTo, Published, ReloadInv, ReloadTypeOK,
      ReloadLocks, Refreshing, Reloading, f
<1>4. RegistryInv'
  BY <1>0, ReloadAssumption, SMT
  DEF FinishHelper, ReaderAt, ReaderTo, Published, ReloadInv, ReloadTypeOK,
      SourceFiles, SourceVersions, ReloadLocks, Refreshing, Reloading,
      RegistryInv, Observed, NoStaging, File, f
<1>5. HelperInv'
  BY <1>0, ReloadAssumption, SMT
  DEF FinishHelper, ReaderAt, ReaderTo, Published, ReloadInv, ReloadTypeOK,
      SourceFiles, SourceVersions, ReloadLocks, Reloading, HelperInv,
      Observed, Mixed, f
<1> QED
  BY <1>1, <1>2, <1>3, <1>4, <1>5 DEF ReloadInv

LEMMA ObserveHelperKeeps ==
    ASSUME NEW t \in Readers, ReloadInv, ObserveHelper(t)
    PROVE  ReloadInv'
<1>1. ReloadTypeOK'
  BY ReloadAssumption, SMT
  DEF ObserveHelper, ReaderAt, ReaderTo, ReloadInv, ReloadTypeOK,
      SourceFiles, ReaderPcs, NoStaging
<1>2. (\A u \in Readers : Observed(reader[u].got))'
  BY ReloadAssumption, SMT
  DEF ObserveHelper, ReaderAt, ReaderTo, ReloadInv, ReloadTypeOK,
      SourceFiles, SourceVersions, Observed, File
<1>3. ReloadLocks'
  BY ReloadAssumption, SMT
  DEF ObserveHelper, ReaderAt, ReaderTo, ReloadInv, ReloadTypeOK,
      ReloadLocks, Refreshing, Reloading
<1>4. RegistryInv'
  BY ReloadAssumption, SMT
  DEF ObserveHelper, ReaderAt, ReaderTo, ReloadInv, ReloadTypeOK,
      SourceFiles, SourceVersions, ReloadLocks, Refreshing, Reloading,
      RegistryInv, Observed, NoStaging, File
<1>5. HelperInv'
  BY ReloadAssumption, SMT
  DEF ObserveHelper, ReaderAt, ReaderTo, ReloadInv, ReloadTypeOK,
      SourceFiles, SourceVersions, ReloadLocks, Reloading, HelperInv,
      Observed, Mixed
<1> QED
  BY <1>1, <1>2, <1>3, <1>4, <1>5 DEF ReloadInv

LEMMA LoadHelperKeeps ==
    ASSUME NEW t \in Readers, ReloadInv, LoadHelper(t)
    PROVE  ReloadInv'
<1>1. ReloadTypeOK'
  <2>1. reader' \in ReaderRows
    BY ReaderGetsTyped, SMT
    DEF LoadHelper, ReloadInv, ReloadTypeOK, ReaderRows, ReaderPcs
  <2>2. staging \in StagingRows
    BY DEF ReloadInv, ReloadTypeOK, StagingRows
  <2>3. staging' \in StagingRows
    BY <2>2, StagingTyped, Zenon DEF LoadHelper
  <2> QED
    BY <2>1, <2>3, Zenon
    DEF LoadHelper, ReloadInv, ReloadTypeOK, ReaderRows, StagingRows
<1>2. (\A u \in Readers : Observed(reader[u].got))'
  BY ReloadAssumption, SMT
  DEF LoadHelper, ReaderAt, ReaderGets, ReloadInv, ReloadTypeOK,
      SourceFiles, SourceVersions, Observed, File
<1>3. ReloadLocks'
  BY ReloadAssumption, SMT
  DEF LoadHelper, ReaderAt, ReaderGets, ReloadInv, ReloadTypeOK,
      ReloadLocks, Refreshing, Reloading
<1>4. RegistryInv'
  BY ReloadAssumption, SMT
  DEF LoadHelper, ReaderAt, ReaderGets, ReloadInv, ReloadTypeOK,
      SourceFiles, SourceVersions, ReloadLocks, Refreshing, Reloading,
      RegistryInv, Observed, NoStaging, File
<1>5. HelperInv'
  BY ReloadAssumption, SMT
  DEF LoadHelper, ReaderAt, ReaderGets, ReloadInv, ReloadTypeOK,
      SourceFiles, SourceVersions, ReloadLocks, Reloading, HelperInv,
      Observed, Mixed
<1> QED
  BY <1>1, <1>2, <1>3, <1>4, <1>5 DEF ReloadInv

LEMMA ExecuteHelperKeeps ==
    ASSUME NEW t \in Readers, ReloadInv, ExecuteHelper(t)
    PROVE  ReloadInv'
<1>1. ReloadTypeOK'
  <2>1. reader' \in ReaderRows
    BY ReaderToTyped, SMT
    DEF ExecuteHelper, ReloadInv, ReloadTypeOK, ReaderRows, ReaderPcs
  <2>2. reader[t].got.version \in SourceVersions
    BY SMT DEF ReloadInv, ReloadTypeOK, SourceFiles
  <2>3. staging' \in StagingRows
    BY <2>2, SMT
    DEF ExecuteHelper, WithTools, ReloadInv, ReloadTypeOK, StagingRows
  <2>4. registry' \in RegistryRows
    BY <2>2, SMT
    DEF ExecuteHelper, WithTools, ReloadInv, ReloadTypeOK, RegistryRows
  <2>5. helper' \in [version : SourceVersions \cup {Mixed}, stamp : SourceVersions]
    BY <2>2, SMT DEF ExecuteHelper, ReloadInv, ReloadTypeOK
  <2> QED
    BY <2>1, <2>3, <2>4, <2>5, SMT
    DEF ExecuteHelper, ReloadInv, ReloadTypeOK, ReaderRows, StagingRows, RegistryRows
<1>2. (\A u \in Readers : Observed(reader[u].got))'
  BY ReloadAssumption, SMT
  DEF ExecuteHelper, ReaderAt, ReaderTo, WithTools, ReloadInv, ReloadTypeOK,
      SourceFiles, SourceVersions, Observed, File
<1>3. ReloadLocks'
  BY ReloadAssumption, SMT
  DEF ExecuteHelper, ReaderAt, ReaderTo, WithTools, ReloadInv, ReloadTypeOK,
      ReloadLocks, Refreshing, Reloading
<1>4. RegistryInv'
  BY ReloadAssumption, SMT
  DEF ExecuteHelper, ReaderAt, ReaderTo, WithTools, ReloadInv, ReloadTypeOK,
      SourceFiles, SourceVersions, ReloadLocks, Refreshing, Reloading,
      RegistryInv, Observed, NoStaging, File
<1>5. HelperInv'
  <2>1. /\ reader[t].pc = "define" /\ liveLock = t
        /\ UNCHANGED <<source, raced>>
    BY SMT DEF ExecuteHelper, ReaderAt, ReloadInv, ReloadLocks, Reloading
  <2>2. /\ helper'.stamp = helper.stamp
        /\ \/ liveLock' = NoReader /\ reader'[t].pc = "idle"
           \/ /\ liveLock' = t /\ reader'[t].pc \in {"finish", "record"}
              /\ helper'.version = reader[t].got.version
    BY <2>1, SMT DEF ExecuteHelper, ReaderTo, ReloadInv, ReloadTypeOK
  <2>3. \A u \in Readers \ {t} : reader'[u] = reader[u] /\ reader[u].pc \notin Reloading
    BY <2>1, SMT DEF ExecuteHelper, ReaderTo, ReloadInv, ReloadTypeOK, ReloadLocks
  <2> QED
    BY <2>1, <2>2, <2>3, ReloadAssumption, SMT
    DEF ReloadInv, ReloadTypeOK, HelperInv, Observed, Reloading
<1> QED
  BY <1>1, <1>2, <1>3, <1>4, <1>5 DEF ReloadInv

LEMMA CompareServerKeeps ==
    ASSUME NEW t \in Readers, ReloadInv, CompareServer(t)
    PROVE  ReloadInv'
<1> DEFINE f == ReadSource(t)
<1>0. f \in SourceFiles /\ f.version = source.version /\ f.stamp = reader[t].got.stamp
  BY ReadSourceTyped DEF ReloadInv
<1>a. Observed(f)
  BY <1>0, SMT DEF ReloadInv, Observed
<1> HIDE DEF f
<1>1. ReloadTypeOK'
  BY <1>0, <1>a, ReloadAssumption, SMT
  DEF CompareServer, ReaderAt, ReaderTo, Restamp, ReloadInv, ReloadTypeOK,
      SourceFiles, ReaderPcs, NoStaging, f
<1>2. (\A u \in Readers : Observed(reader[u].got))'
  BY <1>0, <1>a, ReloadAssumption, SMT
  DEF CompareServer, ReaderAt, ReaderTo, Restamp, ReloadInv, ReloadTypeOK,
      SourceFiles, SourceVersions, Observed, File, f
<1>3. ReloadLocks'
  BY ReloadAssumption, SMT
  DEF CompareServer, ReaderAt, ReaderTo, Restamp, ReloadInv, ReloadTypeOK,
      ReloadLocks, Refreshing, Reloading
<1>4. RegistryInv'
  BY <1>0, <1>a, ReloadAssumption, SMT
  DEF CompareServer, ReaderAt, ReaderTo, Restamp, ReloadInv, ReloadTypeOK,
      SourceFiles, SourceVersions, ReloadLocks, Refreshing, Reloading,
      RegistryInv, Observed, NoStaging, File, f
<1>5. HelperInv'
  BY ReloadAssumption, SMT
  DEF CompareServer, ReaderAt, ReaderTo, Restamp, ReloadInv, ReloadTypeOK,
      SourceFiles, SourceVersions, ReloadLocks, Reloading, HelperInv,
      Observed, Mixed
<1> QED
  BY <1>1, <1>2, <1>3, <1>4, <1>5 DEF ReloadInv

LEMMA StageServerKeeps ==
    ASSUME NEW t \in Readers, ReloadInv, StageServer(t)
    PROVE  ReloadInv'
<1> DEFINE f == ReadSource(t)
<1>0. f \in SourceFiles /\ f.version = source.version /\ f.stamp = reader[t].got.stamp
  BY ReadSourceTyped DEF ReloadInv
<1>a. Observed(f)
  BY <1>0, SMT DEF ReloadInv, Observed
<1> HIDE DEF f
<1>1. ReloadTypeOK'
  <2>1. reader' \in ReaderRows
    BY <1>0, ReaderToTyped, ReaderGetsTyped, SMT
    DEF StageServer, f, ReloadInv, ReloadTypeOK, ReaderRows, ReaderPcs
  <2>2. staging' \in StagingRows
    <3>1. staging \in StagingRows /\ {f} \in SUBSET SourceFiles
      BY <1>0 DEF ReloadInv, ReloadTypeOK, StagingRows
    <3> QED
      BY <3>1, StagingTyped, Zenon DEF StageServer, f
  <2>3. registry' \in RegistryRows
    BY <1>0, SMT
    DEF StageServer, f, Restamp, ReloadInv, ReloadTypeOK, RegistryRows, SourceFiles
  <2> QED
    BY <2>1, <2>2, <2>3, SMT
    DEF StageServer, ReloadInv, ReloadTypeOK, ReaderRows, StagingRows, RegistryRows
<1>2. (\A u \in Readers : Observed(reader[u].got))'
  BY <1>0, <1>a, ReloadAssumption, SMT
  DEF StageServer, ReaderAt, ReaderTo, ReaderGets, Restamp, ReloadInv,
      ReloadTypeOK, SourceFiles, SourceVersions, Observed, File, f
<1>3. ReloadLocks'
  BY ReloadAssumption, SMT
  DEF StageServer, ReaderAt, ReaderTo, ReaderGets, Restamp, ReloadInv,
      ReloadTypeOK, ReloadLocks, Refreshing, Reloading
<1>4. RegistryInv'
  <2> SUFFICES ASSUME ~ http
               PROVE  RegistryInv'
    BY DEF StageServer, RegistryInv
  <2>1. RegistryInv /\ mcpLock = t /\ staging = NoStaging
    BY SMT DEF StageServer, ReaderAt, ReloadInv, ReloadLocks, Refreshing, RegistryInv
  <2>2. \A u \in Readers : reader'[u].pc # "reread"
    BY <2>1, SMT
    DEF StageServer, ReaderTo, ReaderGets, ReloadInv, ReloadTypeOK, ReloadLocks,
        Refreshing
  <2>3. /\ staging \in StagingRows /\ {f} \in SUBSET SourceFiles
         /\ registry \in RegistryRows
    BY <1>0 DEF ReloadInv, ReloadTypeOK, StagingRows, RegistryRows
  <2>4. CASE f.version = registry.digest
    <3>1. /\ registry' = [registry EXCEPT !.stamp = f.stamp]
          /\ UNCHANGED <<staging, source, http>>
      BY <2>4 DEF StageServer, Restamp, f
    <3>2. /\ registry'.stamp = f.stamp /\ registry'.digest = registry.digest
          /\ registry'.tools = registry.tools
      BY <2>3, <3>1, SMT DEF RegistryRows
    <3>3. registry.digest = source.version
      BY <1>0, <2>4
    <3> QED
      BY <1>a, <2>1, <2>2, <3>1, <3>2, <3>3, SMT DEF RegistryInv, Observed, File
  <2>5. CASE f.version # registry.digest
    <3>1. UNCHANGED <<registry, source, http, mcpLock>>
      BY <2>5 DEF StageServer, f
    <3>2. staging' = [staging EXCEPT !.open = TRUE, !.known = {f}]
      BY <2>5 DEF StageServer, f
    <3>3. staging'.tools = staging.tools
      BY <2>3, <3>2, StagingTyped, Zenon
    <3> QED
      BY <2>1, <2>2, <3>1, <3>3, ReloadAssumption, SMT DEF RegistryInv, Observed, File
  <2> QED
    BY <2>4, <2>5
<1>5. HelperInv'
  BY ReloadAssumption, SMT
  DEF StageServer, ReaderAt, ReaderTo, ReaderGets, Restamp, ReloadInv,
      ReloadTypeOK, SourceFiles, SourceVersions, ReloadLocks, Reloading,
      HelperInv, Observed, Mixed
<1> QED
  BY <1>1, <1>2, <1>3, <1>4, <1>5 DEF ReloadInv

LEMMA ReloadInvStep == ReloadInv /\ [ReloadNext]_reloadVars => ReloadInv'
<1> SUFFICES ASSUME ReloadInv, [ReloadNext]_reloadVars
             PROVE  ReloadInv'
  OBVIOUS
<1>1. CASE UNCHANGED reloadVars
  BY <1>1
  DEF reloadVars, ReloadInv, ReloadTypeOK, ReloadLocks, RegistryInv, HelperInv, Observed
<1> QED
  BY <1>1, EditSourceKeeps, ObserveHelperKeeps, LoadHelperKeeps, ExecuteHelperKeeps,
     FinishHelperKeeps, RecordHelperKeeps, ObserveServerKeeps, CompareServerKeeps,
     EnterRefreshKeeps, StageServerKeeps, ExecuteServerKeeps
  DEF ReloadNext

\* What is served is the file's, or is known not to be: the tools of a process
\* that refreshes by the registry are those of one version that executed, a
\* newer source is visibly pending whatever edits raced, and so is a helper's
\* unless the edit fell into its reload.
THEOREM ReloadConverges == ReloadSpec => []ReloadsConverge
<1>1. ReloadInv => ReloadsConverge
  BY ReloadInvGives
<1>2. ReloadInit => ReloadInv
  BY ReloadInvInit
<1>3. ReloadInv /\ [ReloadNext]_reloadVars => ReloadInv'
  BY ReloadInvStep
<1> QED
  BY <1>1, <1>2, <1>3, PTL DEF ReloadSpec

-----------------------------------------------------------------------------
(***************************************************************************)
(* The agent.  What the host has concluded is backed by calls that it ran: *)
(* every flag has its witness among them, and every failed execution is    *)
(* counted among the failures.                                             *)
(***************************************************************************)

\* A call that proves something about the files that were changed.
Proves(c, paths) ==
    \/ c.tool \in {"suite", "game"}
    \/ c.tool = "run" /\ c.path \in paths
    \/ c.tool = "read" /\ c.path \in paths \cap Documents

TriesInv ==
    /\ tries \in [ToolCalls -> 0..2]
    /\ \A c \in ToolCalls : tries[c] <= failures[c]

EvidenceInv ==
    /\ evidence => "read" \in used
    /\ task.readOnly => ~ mutated

ValidationInv ==
    /\ mutated => changed # {}
    /\ validated /\ mutated /\ ~ hidden => \E c \in passed : Proves(c, changed)

OutcomeInv ==
    /\ outcome = "final" /\ task.checklist /\ mutated => validated
    /\ outcome \in {"final", "unvalidated"} /\ task.grounded => "read" \in used
    /\ outcome = "final" /\ task.required => "web" \in used

AgentInv ==
    /\ AgentTypeOK /\ TriesInv /\ EvidenceInv /\ ValidationInv /\ OutcomeInv
    /\ ChecklistHonest

LEMMA MarkedTyped ==
    ASSUME boxes \in [Items -> Statuses], NEW S, NEW marks \in [S -> Statuses]
    PROVE  /\ Marked(marks) \in [Items -> Statuses]
           /\ task.checklist =>
                 \A i \in Items :
                    Marked(marks)[i] = IF i \in S THEN marks[i] ELSE boxes[i]
           /\ ~ task.checklist => Marked(marks) = boxes
BY SMT DEF Marked

LEMMA BlockedTyped ==
    ASSUME NEW i \in {1, 2, 3}
    PROVE  /\ Blocked(i) \in [{i, 4} -> Statuses]
           /\ Blocked(i)[i] = "blocked" /\ Blocked(i)[4] = "done"
BY SMT DEF Blocked, Statuses

LEMMA BlocksOneItem ==
    ASSUME boxes \in [Items -> Statuses], NEW i \in {1, 2, 3}
    PROVE  /\ Marked(Blocked(i)) \in [Items -> Statuses]
           /\ task.checklist => /\ Marked(Blocked(i))[4] = "done"
                                /\ \E j \in Items : Marked(Blocked(i))[j] = "blocked"
<1>1. /\ Marked(Blocked(i)) \in [Items -> Statuses]
      /\ task.checklist =>
            \A j \in Items :
                Marked(Blocked(i))[j] = IF j \in {i, 4} THEN Blocked(i)[j] ELSE boxes[j]
  BY BlockedTyped, MarkedTyped
<1>2. i \in Items /\ 4 \in Items
  BY SMT DEF Items
<1> QED
  BY <1>1, <1>2, BlockedTyped

\* An end without an answer leaves what was concluded alone.
LEMMA EndsWithout ==
    ASSUME AgentInv, outcome' \in {"error", "evidence_required", "raised"},
           boxes' \in [Items -> Statuses], reviews' \in 0..3,
           task.checklist /\ outcome' # "raised" =>
               boxes'[4] = "done" /\ \E i \in Items : boxes'[i] = "blocked",
           UNCHANGED <<task, step, phase, flags, failures, webDone, passed, hidden,
                       tries>>
    PROVE  AgentInv'
<1>1. AgentTypeOK'
  BY Zenon DEF AgentInv, AgentTypeOK, flags
<1>2. TriesInv' /\ EvidenceInv' /\ ValidationInv'
  BY Zenon DEF AgentInv, TriesInv, EvidenceInv, ValidationInv, flags
<1>3. OutcomeInv' /\ ChecklistHonest'
  BY SMT DEF OutcomeInv, ChecklistHonest
<1> QED
  BY <1>1, <1>2, <1>3 DEF AgentInv

LEMMA FinishFinalKeeps ==
    ASSUME AgentInv, FinishFinal, ~ LacksEvidence, ~ LacksRequired
    PROVE  AgentInv'
<1> DEFINE bad == mutated /\ ~ validated
           marks == [i \in Items |-> IF i = 3 /\ bad THEN "blocked" ELSE "done"]
<1>1. marks \in [Items -> Statuses]
  BY DEF Statuses
<1>2. /\ boxes' = Marked(marks) /\ outcome' \in {"final", "unvalidated"}
      /\ outcome' = "final" /\ task.checklist => ~ bad
      /\ outcome' = "unvalidated" => bad
      /\ UNCHANGED <<task, step, phase, flags, failures, webDone, reviews, passed, hidden,
                     tries>>
  BY Zenon DEF FinishFinal, Return
<1>3. /\ boxes' \in [Items -> Statuses]
      /\ task.checklist => \A i \in Items : boxes'[i] = marks[i]
  BY <1>1, <1>2, MarkedTyped DEF AgentInv, AgentTypeOK
<1>4. AgentTypeOK'
  BY <1>2, <1>3, Zenon DEF AgentInv, AgentTypeOK, flags
<1>5. TriesInv' /\ EvidenceInv' /\ ValidationInv'
  BY <1>2, Zenon DEF AgentInv, TriesInv, EvidenceInv, ValidationInv, flags
<1>6. OutcomeInv'
  BY <1>2, Zenon
  DEF AgentInv, OutcomeInv, EvidenceInv, LacksEvidence, LacksRequired, flags
<1>7. ChecklistHonest'
  <2>1. /\ outcome' = "final" /\ task.checklist => \A i \in Items : boxes'[i] = "done"
        /\ outcome' = "unvalidated" /\ task.checklist =>
              boxes'[3] = "blocked" /\ boxes'[4] = "done"
    BY <1>2, <1>3, SMT DEF Items
  <2> QED
    BY <1>2, <2>1, SMT DEF ChecklistHonest
<1> QED
  BY <1>4, <1>5, <1>6, <1>7 DEF AgentInv

LEMMA TaskKinds ==
    ASSUME AgentTypeOK
    PROVE  /\ task.required => ~ task.checklist
           /\ task.grounded => ~ task.required
BY SMT DEF AgentTypeOK, Tasks, Task

LEMMA AnsweringKeeps ==
    ASSUME AgentInv, Conclude \/ RequiredUnused \/ RejectDenial \/ Unreadable \/ Raised
    PROVE  AgentInv'
<1>1. boxes \in [Items -> Statuses] /\ reviews \in 0..3 /\ AgentTypeOK
  BY DEF AgentInv, AgentTypeOK
<1>2. ASSUME Return("error", <<>>), task.required
      PROVE  AgentInv'
  <2>1. boxes' = boxes
    BY <1>1, <1>2, TaskKinds DEF Return, Marked
  <2> QED
    BY <1>1, <1>2, <2>1, TaskKinds, EndsWithout DEF Return
<1>3. ASSUME NEW i \in {1, 2, 3}, NEW o \in {"error", "evidence_required"},
             Return(o, Blocked(i))
      PROVE  AgentInv'
  BY <1>1, <1>3, BlocksOneItem, EndsWithout DEF Return
<1>4. CASE Conclude
  <2>1. CASE phase = "finalize" /\ LacksRequired
    BY <1>2, <1>4, <2>1 DEF Conclude, LacksRequired
  <2>2. CASE ~ (phase = "finalize" /\ LacksRequired) /\ phase = "finalize" /\ LacksUse
    BY <1>3, <1>4, <2>2 DEF Conclude
  <2>3. CASE /\ ~ (phase = "finalize" /\ LacksRequired)
             /\ ~ (phase = "finalize" /\ LacksUse)
             /\ LacksEvidence
    BY <1>3, <1>4, <2>3 DEF Conclude
  <2>4. CASE /\ ~ (phase = "finalize" /\ LacksRequired)
             /\ ~ (phase = "finalize" /\ LacksUse)
             /\ ~ LacksEvidence
    <3>1. phase \in {"steps", "finalize"}
      BY <1>1 DEF AgentTypeOK
    <3>2. FinishFinal /\ ~ LacksRequired
      BY <1>4, <2>4, <3>1 DEF Conclude, Answerable
    <3> QED
      BY <2>4, <3>2, FinishFinalKeeps
  <2> QED
    BY <2>1, <2>2, <2>3, <2>4
<1>5. CASE RequiredUnused
  BY <1>2, <1>5 DEF RequiredUnused, LacksRequired
<1>6. CASE RejectDenial
  <2>1. reviews' \in 0..3
    BY <1>6, SMT DEF RejectDenial
  <2> QED
    BY <1>1, <1>6, <2>1, BlocksOneItem, EndsWithout DEF RejectDenial
<1>7. CASE Unreadable
  BY <1>3, <1>7 DEF Unreadable
<1>8. CASE Raised
  BY <1>1, <1>8, EndsWithout DEF Raised
<1> QED
  BY <1>4, <1>5, <1>6, <1>7, <1>8

LEMMA AgentInvInit == AgentInit => AgentInv
<1> SUFFICES ASSUME AgentInit
             PROVE  AgentInv
  OBVIOUS
<1>1. boxes \in [Items -> Statuses]
  BY SMT DEF AgentInit, Items, Statuses
<1>2. failures \in [ToolCalls -> 0..3] /\ step \in 1..MaxSteps /\ reviews \in 0..3
  BY AgentAssumption, SMT DEF AgentInit
<1>3. AgentTypeOK
  BY <1>1, <1>2, Zenon DEF AgentInit, AgentTypeOK
<1>4. TriesInv
  BY SMT DEF AgentInit, TriesInv
<1>5. EvidenceInv /\ ValidationInv
  BY Zenon DEF AgentInit, EvidenceInv, ValidationInv
<1>6. OutcomeInv /\ ChecklistHonest
  BY SMT DEF AgentInit, OutcomeInv, ChecklistHonest
<1> QED
  BY <1>3, <1>4, <1>5, <1>6 DEF AgentInv

LEMMA NextStepTyped ==
    ASSUME AgentTypeOK, NextStep
    PROVE  step' \in 1..MaxSteps /\ phase' \in {"steps", "finalize"}
BY AgentAssumption, SMT DEF AgentTypeOK, NextStep

\* While nothing is returned, the properties of answers have nothing to say.
LEMMA StillRunning ==
    ASSUME outcome' = "none"
    PROVE  OutcomeInv' /\ ChecklistHonest'
BY SMT DEF OutcomeInv, ChecklistHonest

LEMMA SendBackKeeps ==
    ASSUME AgentInv, SendBack
    PROVE  AgentInv'
<1>1. AgentTypeOK /\ boxes \in [Items -> Statuses]
  BY DEF AgentInv, AgentTypeOK
<1> DEFINE marks == [i \in {2, 3} |-> IF i = 2 THEN "done" ELSE "in_progress"]
<1>2. marks \in [{2, 3} -> Statuses]
  BY SMT DEF Statuses
<1>3. boxes' = Marked(marks) \/ boxes' = boxes
  BY Zenon DEF SendBack
<1>4. boxes' \in [Items -> Statuses]
  BY <1>1, <1>2, <1>3, MarkedTyped
<1>5. UNCHANGED <<task, flags, failures, webDone, reviews, outcome, passed, hidden,
                  tries>>
  BY DEF SendBack
<1>6. AgentTypeOK'
  BY <1>1, <1>4, <1>5, NextStepTyped, Zenon DEF AgentTypeOK, flags, SendBack
<1>7. TriesInv' /\ EvidenceInv' /\ ValidationInv'
  BY <1>5, Zenon DEF AgentInv, TriesInv, EvidenceInv, ValidationInv, flags
<1>8. OutcomeInv' /\ ChecklistHonest'
  BY <1>5, StillRunning DEF SendBack, Running
<1> QED
  BY <1>6, <1>7, <1>8 DEF AgentInv

LEMMA ReviewDenialKeeps ==
    ASSUME AgentInv, ReviewDenial
    PROVE  AgentInv'
<1>1. AgentTypeOK /\ boxes \in [Items -> Statuses]
  BY DEF AgentInv, AgentTypeOK
<1> DEFINE marks == [i \in {1} |-> "done"]
<1>2. marks \in [{1} -> Statuses]
  BY SMT DEF Statuses
<1>3. boxes' = Marked(marks) \/ boxes' = boxes
  BY Zenon DEF ReviewDenial
<1>4. boxes' \in [Items -> Statuses]
  BY <1>1, <1>2, <1>3, MarkedTyped
<1>5. UNCHANGED <<task, changed, mutated, attempted, validated, failures, webDone,
                  outcome, passed, hidden, tries>>
  BY DEF ReviewDenial
<1>6. step' \in 1..MaxSteps /\ phase' \in {"steps", "finalize"}
  BY <1>1, NextStepTyped DEF ReviewDenial, AgentTypeOK
<1>7. reviews' \in 0..3
  BY <1>1, SMT DEF ReviewDenial, AgentTypeOK
<1>8. /\ used' \in SUBSET Tools /\ (evidence' => "read" \in used')
      /\ evidence' \in BOOLEAN /\ inspected' \in BOOLEAN /\ used \subseteq used'
  <2>1. "read" \in Tools
    BY SMT DEF Tools, PathTools
  <2>2. CASE UNCHANGED <<used, evidence, inspected, boxes>>
    BY <2>2 DEF AgentInv, AgentTypeOK, EvidenceInv
  <2>3. CASE used' = used \cup {"read"} /\ evidence' = TRUE /\ inspected' = TRUE
    BY <2>1, <2>3, Zenon DEF AgentInv, AgentTypeOK
  <2> QED
    BY <2>2, <2>3, Zenon DEF ReviewDenial
<1>9. AgentTypeOK'
  BY <1>1, <1>4, <1>5, <1>6, <1>7, <1>8, Zenon DEF AgentTypeOK
<1>10. TriesInv' /\ EvidenceInv' /\ ValidationInv'
  BY <1>5, <1>8, Zenon DEF AgentInv, TriesInv, EvidenceInv, ValidationInv
<1>11. OutcomeInv' /\ ChecklistHonest'
  BY <1>5, StillRunning DEF ReviewDenial, Answerable, Running
<1> QED
  BY <1>9, <1>10, <1>11 DEF AgentInv

(***************************************************************************)
(* Calls.                                                                  *)
(***************************************************************************)

LEMMA CallTool ==
    ASSUME NEW c \in ToolCalls
    PROVE  /\ c.tool \in Tools
           /\ c.tool \in PathTools =>
                 c.path \in Paths /\ c \in [tool : PathTools, path : Paths]
BY SMT DEF ToolCalls, Tools, PathTools, PathlessTools

LEMMA GiveUpKeeps ==
    ASSUME AgentInv, NEW c \in ToolCalls, GiveUp(c)
    PROVE  AgentInv'
BY BlocksOneItem, EndsWithout DEF GiveUp, Return, AgentInv, AgentTypeOK

LEMMA TickedTyped ==
    ASSUME boxes \in [Items -> Statuses], NEW c \in ToolCalls, NEW ok \in BOOLEAN,
           boxes' = Ticked(c, ok)
    PROVE  boxes' \in [Items -> Statuses]
<1> DEFINE looked == [i \in {1, 2} |-> IF i = 1 THEN "done" ELSE "in_progress"]
           checked == [i \in {2, 3} |->
                          IF i = 2 THEN "done"
                          ELSE IF validated' THEN "done" ELSE "blocked"]
           one == IF (ok /\ c.tool \in Inspecting) \/ Mutates(c, ok)
                  THEN Marked(looked) ELSE boxes
           both == [i \in Items |-> IF i \in {2, 3} THEN checked[i] ELSE one[i]]
<1>1. looked \in [{1, 2} -> Statuses]
  BY SMT DEF Statuses
<1>2. one \in [Items -> Statuses]
  <2> HIDE DEF looked, checked, both
  <2>1. Marked(looked) \in [Items -> Statuses]
    BY <1>1, MarkedTyped
  <2>2. one = Marked(looked) \/ one = boxes
    OBVIOUS
  <2> QED
    BY <2>1, <2>2
<1>3. checked[2] = "done" /\ checked[3] \in {"done", "blocked"}
  BY SMT
<1>4. boxes' = both \/ boxes' = one
  BY Zenon DEF Ticked
<1> HIDE DEF one, checked
<1>5. checked[2] \in Statuses /\ checked[3] \in Statuses
  BY <1>3 DEF Statuses
<1>6. both \in [Items -> Statuses]
  BY <1>2, <1>5, SMT
<1> QED
  BY <1>2, <1>4, <1>6

LEMMA ConcludedTyped ==
    ASSUME AgentInv, NEW c \in ToolCalls, NEW ok \in BOOLEAN, Concluded(c, ok)
    PROVE  /\ used' \in SUBSET Tools /\ changed' \in SUBSET Paths
           /\ evidence' \in BOOLEAN /\ inspected' \in BOOLEAN /\ mutated' \in BOOLEAN
           /\ attempted' \in BOOLEAN /\ validated' \in BOOLEAN
           /\ evidence' => "read" \in used'
           /\ mutated' => changed' # {}
<1>1. c.tool \in Tools /\ (Mutates(c, ok) => c.path \in Paths)
  BY CallTool, SMT DEF Mutates, Mutating, PathTools
<1>2. used' \in SUBSET Tools
  BY <1>1, Zenon DEF Concluded, AgentInv, AgentTypeOK
<1>3. changed' \in SUBSET Paths
  BY <1>1, Zenon DEF Concluded, AgentInv, AgentTypeOK
<1>4. /\ evidence' \in BOOLEAN /\ inspected' \in BOOLEAN /\ mutated' \in BOOLEAN
      /\ attempted' \in BOOLEAN
  BY Zenon DEF Concluded
<1>5. validated' \in BOOLEAN
  BY Zenon DEF Concluded
<1>6. evidence' => "read" \in used'
  BY Zenon DEF Concluded, AgentInv, EvidenceInv
<1>7. mutated' => changed' # {}
  BY Zenon DEF Concluded, AgentInv, ValidationInv
<1> QED
  BY <1>2, <1>3, <1>4, <1>5, <1>6, <1>7

\* A reader changes nothing.
LEMMA ReadersOnlyRead ==
    ASSUME AgentInv, NEW c \in ToolCalls, NEW ok \in BOOLEAN, Concluded(c, ok),
           ~ ok \/ ~ Refused(c)
    PROVE  task.readOnly => ~ mutated'
<1>1. task.readOnly => ~ Mutates(c, ok)
  BY SMT DEF Refused, Mutates, Mutating
<1> QED
  BY <1>1, Zenon DEF Concluded, AgentInv, EvidenceInv

LEMMA CountedTyped ==
    ASSUME AgentTypeOK, NEW c \in ToolCalls, NEW ok \in BOOLEAN, failures[c] < 3
    PROVE  Counted(c, ok) \in [ToolCalls -> 0..3]
BY SMT DEF AgentTypeOK, Counted

LEMMA RefuseCallKeeps ==
    ASSUME AgentInv, NEW c \in ToolCalls, RefuseCall(c)
    PROVE  AgentInv'
<1>1. /\ AgentTypeOK /\ boxes \in [Items -> Statuses] /\ outcome = "none"
      /\ Concluded(c, FALSE) /\ boxes' = Ticked(c, FALSE) /\ FALSE \in BOOLEAN
      /\ failures[c] < 3 /\ failures' = Counted(c, FALSE) /\ NextStep
      /\ UNCHANGED <<task, webDone, reviews, outcome, passed, hidden, tries>>
  BY DEF RefuseCall, Running, AgentInv, AgentTypeOK
<1>2. boxes' \in [Items -> Statuses] /\ failures' \in [ToolCalls -> 0..3]
  BY <1>1, TickedTyped, CountedTyped
<1>3. step' \in 1..MaxSteps /\ phase' \in {"steps", "finalize"}
  BY <1>1, NextStepTyped
<1>4. AgentTypeOK'
  BY <1>1, <1>2, <1>3, ConcludedTyped, Zenon DEF AgentTypeOK
<1>5. TriesInv'
  BY <1>1, SMT DEF AgentInv, AgentTypeOK, TriesInv, Counted
<1>6. EvidenceInv'
  BY <1>1, ConcludedTyped, ReadersOnlyRead, Zenon DEF EvidenceInv
<1>7. ValidationInv'
  <2>1. changed' = changed /\ (mutated' => mutated) /\ (validated' => validated)
    BY <1>1, Zenon DEF Concluded, Mutates
  <2> QED
    BY <1>1, <2>1, Zenon DEF AgentInv, ValidationInv
<1>8. OutcomeInv' /\ ChecklistHonest'
  BY <1>1, StillRunning
<1> QED
  BY <1>4, <1>5, <1>6, <1>7, <1>8 DEF AgentInv

LEMMA RunCallKeeps ==
    ASSUME AgentInv, NEW c \in ToolCalls, RunCall(c)
    PROVE  AgentInv'
<1>1. /\ AgentTypeOK /\ boxes \in [Items -> Statuses] /\ outcome = "none"
      /\ failures[c] < 2 /\ ~ Refused(c) /\ NextStep
      /\ UNCHANGED <<task, reviews, outcome>>
  BY SMT DEF RunCall, Running, Repeated, AgentInv, AgentTypeOK
<1>2. PICK ok \in BOOLEAN, touched \in BOOLEAN :
          /\ touched => ~ ok /\ c.tool \in Mutating \ {"preview"}
          /\ Concluded(c, ok) /\ boxes' = Ticked(c, ok)
          /\ failures' = Counted(c, ok)
          /\ webDone' = IF ok /\ c.tool = "web" THEN webDone \cup {c} ELSE webDone
          /\ passed' = IF Mutates(c, ok) THEN {c} \cap [tool : {"game"}, path : Paths]
                       ELSE IF touched THEN {}
                       ELSE IF ok /\ c.tool \in Validating THEN passed \cup {c}
                       ELSE passed
          /\ hidden' = IF c.tool \in Validating \/ Mutates(c, ok) THEN FALSE
                       ELSE hidden \/ touched
          /\ tries' = IF ~ ok THEN [tries EXCEPT ![c] = @ + 1]
                      ELSE IF c.tool \in Mutating THEN [d \in ToolCalls |-> 0]
                      ELSE [tries EXCEPT ![c] = 0]
  BY DEF RunCall
<1>3. /\ boxes' \in [Items -> Statuses] /\ failures' \in [ToolCalls -> 0..3]
      /\ webDone' \in SUBSET ToolCalls
  <2>1. failures[c] < 3
    BY <1>1, SMT DEF AgentTypeOK
  <2>2. boxes' \in [Items -> Statuses] /\ failures' \in [ToolCalls -> 0..3]
    BY <1>1, <1>2, <2>1, TickedTyped, CountedTyped
  <2>3. webDone' \in SUBSET ToolCalls
    BY <1>1, <1>2, Zenon DEF AgentTypeOK
  <2> QED
    BY <2>2, <2>3
<1>4. step' \in 1..MaxSteps /\ phase' \in {"steps", "finalize"}
  BY <1>1, NextStepTyped
<1>5. hidden' \in BOOLEAN
  BY <1>2, Zenon
<1>6. AgentTypeOK'
  BY <1>1, <1>2, <1>3, <1>4, <1>5, ConcludedTyped, Zenon DEF AgentTypeOK
<1>7. TriesInv'
  <2>1. /\ tries \in [ToolCalls -> 0..2] /\ failures \in [ToolCalls -> 0..3]
        /\ \A d \in ToolCalls : tries[d] <= failures[d]
    BY <1>1 DEF AgentInv, AgentTypeOK, TriesInv
  <2>2. CASE ~ ok
    <3>1. /\ tries' = [tries EXCEPT ![c] = @ + 1]
          /\ failures' = [failures EXCEPT ![c] = @ + 1]
      BY <1>2, <2>2, Zenon DEF Counted
    <3> QED
      BY <1>1, <2>1, <3>1, SMT DEF TriesInv
  <2>3. CASE ok /\ c.tool \in Mutating
    <3>1. tries' = [d \in ToolCalls |-> 0] /\ failures' = [d \in ToolCalls |-> 0]
      BY <1>2, <2>3, Zenon DEF Counted
    <3> QED
      BY <3>1, SMT DEF TriesInv
  <2>4. CASE ok /\ c.tool \notin Mutating
    <3>1. tries' = [tries EXCEPT ![c] = 0] /\ failures' = [failures EXCEPT ![c] = 0]
      BY <1>2, <2>4, Zenon DEF Counted
    <3> QED
      BY <2>1, <3>1, SMT DEF TriesInv
  <2> QED
    BY <2>2, <2>3, <2>4
<1>8. EvidenceInv'
  BY <1>1, <1>2, ConcludedTyped, ReadersOnlyRead, Zenon DEF EvidenceInv
<1>9. ValidationInv'
  <2> SUFFICES ASSUME validated', mutated', ~ hidden'
               PROVE  \E d \in passed' : Proves(d, changed')
    BY <1>2, ConcludedTyped, Zenon DEF ValidationInv
  <2>1. CASE Mutates(c, ok)
    <3>1. c.tool \in Validating
      BY <1>2, <2>1, Zenon DEF Concluded
    <3>2. c.tool = "game"
      BY <2>1, <3>1, SMT DEF Mutates, Mutating, Validating
    <3>3. c \in [tool : {"game"}, path : Paths]
      BY <3>2, SMT DEF ToolCalls, PathTools, PathlessTools
    <3>4. c \in passed' /\ Proves(c, changed')
      BY <1>2, <2>1, <3>2, <3>3, Zenon DEF Proves
    <3> QED
      BY <3>4
  <2>2. CASE ~ Mutates(c, ok) /\ c.tool \in Validating
    <3>1. ok /\ changed' = changed /\ Covers(c, changed) /\ changed' # {}
      BY <1>2, <2>2, ConcludedTyped, Zenon DEF Concluded
    <3>2. Proves(c, changed')
      BY <3>1 DEF Covers, Proves
    <3>3. c \in passed'
      BY <1>2, <2>2, <3>1, Zenon
    <3> QED
      BY <3>2, <3>3
  <2>3. CASE ~ Mutates(c, ok) /\ c.tool \notin Validating
    <3>1. validated /\ mutated /\ changed' = changed /\ ~ hidden /\ ~ touched
      BY <1>2, <2>3, Zenon DEF Concluded
    <3>2. passed' = passed
      BY <1>2, <2>3, <3>1, Zenon
    <3> QED
      BY <3>1, <3>2, Zenon DEF AgentInv, ValidationInv
  <2> QED
    BY <2>1, <2>2, <2>3
<1>10. OutcomeInv' /\ ChecklistHonest'
  BY <1>1, StillRunning
<1> QED
  BY <1>6, <1>7, <1>8, <1>9, <1>10 DEF AgentInv

LEMMA AgentInvStep == AgentInv /\ [AgentNext]_agentVars => AgentInv'
<1> SUFFICES ASSUME AgentInv, [AgentNext]_agentVars
             PROVE  AgentInv'
  OBVIOUS
<1>1. CASE UNCHANGED agentVars
  <2>1. AgentTypeOK'
    BY <1>1, Zenon DEF agentVars, flags, AgentInv, AgentTypeOK
  <2>2. TriesInv' /\ EvidenceInv' /\ ValidationInv'
    BY <1>1, Zenon
    DEF agentVars, flags, AgentInv, TriesInv, EvidenceInv, ValidationInv
  <2>3. OutcomeInv' /\ ChecklistHonest'
    BY <1>1, Zenon DEF agentVars, flags, AgentInv, OutcomeInv, ChecklistHonest
  <2> QED
    BY <2>1, <2>2, <2>3 DEF AgentInv
<1> QED
  BY <1>1, SendBackKeeps, AnsweringKeeps, ReviewDenialKeeps, GiveUpKeeps, RefuseCallKeeps,
     RunCallKeeps
  DEF AgentNext

LEMMA AgentInvGives == AgentInv => ReportsAreGrounded
<1> SUFFICES ASSUME AgentInv
             PROVE  ReportsAreGrounded
  OBVIOUS
<1>1. ValidationIsCurrent
  BY Zenon DEF AgentInv, ValidationInv, OutcomeInv, ValidationIsCurrent, Proves
<1>2. AnswersAreGrounded
  BY Zenon DEF AgentInv, EvidenceInv, OutcomeInv, AnswersAreGrounded
<1>3. NoFutileRepeat
  BY SMT DEF AgentInv, TriesInv, NoFutileRepeat
<1> QED
  BY <1>1, <1>2, <1>3 DEF AgentInv, ReportsAreGrounded

\* Whatever the model answers and whatever the calls find: an answer without a
\* warning rests on a check made since the files last changed, grounded answers
\* follow a look at a file or a page, readers change nothing, no call is
\* executed a third time in vain, and the checklist says what happened.
THEOREM AgentReportsAreGrounded == AgentSpec => []ReportsAreGrounded
<1>1. AgentInv => ReportsAreGrounded
  BY AgentInvGives
<1>2. AgentInit => AgentInv
  BY AgentInvInit
<1>3. AgentInv /\ [AgentNext]_agentVars => AgentInv'
  BY AgentInvStep
<1> QED
  BY <1>1, <1>2, <1>3, PTL DEF AgentSpec

-----------------------------------------------------------------------------
\* The application's own server.  What a call may still do is bounded by the
\* application being open, and the copies of the system by how far its
\* replacement is.
LocalTyped ==
    /\ app \in [open : BOOLEAN, tracked : Children \cup {NoChild}, starting : BOOLEAN,
                started : BOOLEAN, hosted : BOOLEAN, keep : BOOLEAN]
    /\ children \in [Children -> {"none", "booting", "serving", "gone", "reaped"}]
    /\ calls \in [Callers -> {"idle", "probing", "spawning"}]
    /\ folder \in [system : CopyStates, next : CopyStates, backup : CopyStates,
                   checkout : BOOLEAN]

\* A closed application makes no calls.
CallsDropped == ~ app.open => \A k \in Callers : calls[k] = "idle"

ReplacementInv ==
    /\ ACopyRemains
    /\ update \in {"clearing", "cloning", "moving"} => folder.system = "whole"
    /\ update \in {"moving", "placing"} => folder.next = "whole"
    /\ update = "placing" => folder.backup = "whole"

LocalInv ==
    /\ LocalTyped /\ CallsDropped /\ ReplacementInv
    /\ ServersAreTracked /\ ClosedLeavesNothing

\* The bundled system is replaced, or the step is of the servers.
LEMMA ReplacementSteps ==
    ASSUME LocalInv,
           BeginUpdate \/ ClearCopies \/ Clone \/ MoveSystemAside \/ PutCloneInPlace
    PROVE  LocalInv'
<1>1. UNCHANGED <<app, children, port, calls, loose>>
  BY DEF BeginUpdate, ClearCopies, Clone, MoveSystemAside, PutCloneInPlace
<1>2. "absent" \in CopyStates /\ "partial" \in CopyStates /\ "whole" \in CopyStates
  BY DEF CopyStates
<1>3. folder' \in [system : CopyStates, next : CopyStates, backup : CopyStates,
                   checkout : BOOLEAN]
  <2>1. folder \in [system : CopyStates, next : CopyStates, backup : CopyStates,
                    checkout : BOOLEAN]
    BY DEF LocalInv, LocalTyped
  <2>2. CASE BeginUpdate
    BY <2>1, <2>2 DEF BeginUpdate
  <2>3. CASE ClearCopies
    BY <1>2, <2>1, <2>3 DEF ClearCopies
  <2>4. CASE Clone
    BY <1>2, <2>1, <2>4 DEF Clone
  <2>5. CASE MoveSystemAside
    BY <1>2, <2>1, <2>5 DEF MoveSystemAside
  <2>6. CASE PutCloneInPlace
    BY <1>2, <2>1, <2>6, Zenon DEF PutCloneInPlace
  <2> QED
    BY <2>2, <2>3, <2>4, <2>5, <2>6
<1>4. LocalTyped' /\ CallsDropped' /\ ServersAreTracked' /\ ClosedLeavesNothing'
  <2>1. LocalTyped'
    BY <1>1, <1>3, Zenon DEF LocalInv, LocalTyped
  <2> QED
    BY <1>1, <2>1, Zenon DEF LocalInv, CallsDropped, ServersAreTracked, ClosedLeavesNothing,
       ServerLives
<1>5. ReplacementInv'
  <2>1. ReplacementInv /\ LocalTyped
    BY DEF LocalInv
  <2>2. CASE BeginUpdate
    <3>1. folder' = folder /\ folder.system = "whole" /\ update' = "clearing"
      BY <2>2 DEF BeginUpdate
    <3> QED
      BY <2>1, <3>1, SMT DEF ReplacementInv, ACopyRemains
  <2>3. CASE ClearCopies
    <3>1. update = "clearing" /\ update' \in {"cloning", "idle"}
      BY <2>3 DEF ClearCopies
    <3>2. folder'.system = folder.system
      BY <2>1, <2>3, Zenon DEF ClearCopies, LocalTyped
    <3> QED
      BY <2>1, <3>1, <3>2, SMT DEF ReplacementInv, ACopyRemains
  <2>4. CASE Clone
    BY <2>1, <2>4, SMT DEF Clone, ReplacementInv, ACopyRemains, LocalTyped
  <2>5. CASE MoveSystemAside
    BY <2>1, <2>5, SMT DEF MoveSystemAside, ReplacementInv, ACopyRemains, LocalTyped
  <2>6. CASE PutCloneInPlace
    <3>1. \/ folder'.system = folder.next
          \/ folder' = folder
      BY <2>1, <2>6, Zenon DEF PutCloneInPlace, LocalTyped
    <3>2. update = "placing" /\ update' = "idle"
      BY <2>6 DEF PutCloneInPlace
    <3> QED
      BY <2>1, <3>1, <3>2, SMT DEF ReplacementInv, ACopyRemains
  <2> QED
    BY <2>2, <2>3, <2>4, <2>5, <2>6
<1> QED
  BY <1>4, <1>5 DEF LocalInv

\* A step of the servers: what it must show.
LEMMA ServersMove ==
    ASSUME LocalInv, UNCHANGED folderVars, LocalTyped', CallsDropped',
           ServersAreTracked', ClosedLeavesNothing'
    PROVE  LocalInv'
<1>1. folder' = folder /\ update' = update
  BY DEF folderVars
<1>2. ReplacementInv'
  BY <1>1, Zenon DEF LocalInv, ReplacementInv, ACopyRemains
<1> QED
  BY <1>2 DEF LocalInv

LEMMA AppUnborn ==
    ASSUME NEW c \in Unborn
    PROVE  c \in Children /\ children[c] = "none"
<1> DEFINE none == {d \in Children : children[d] = "none"}
<1>1. none # {} /\ c = (CHOOSE d \in none : TRUE)
  BY DEF Unborn
<1>2. c \in none
  BY <1>1
<1> QED
  BY <1>2

\* What the application remembers when a call returns.
LEMMA ReturnedTyped ==
    ASSUME LocalInv, NEW k \in Callers, NEW ok \in BOOLEAN,
           NEW t \in Children \cup {NoChild}, Returned(k, ok, t)
    PROVE  /\ app' \in [open : BOOLEAN, tracked : Children \cup {NoChild},
                        starting : BOOLEAN, started : BOOLEAN, hosted : BOOLEAN,
                        keep : BOOLEAN]
           /\ app'.tracked = t /\ app'.open = app.open
           /\ app'.hosted = app.hosted /\ app'.keep = app.keep
           /\ calls' \in [Callers -> {"idle", "probing", "spawning"}]
           /\ ~ app.open => \A j \in Callers : calls'[j] = "idle"
<1>1. LocalTyped /\ CallsDropped
  BY DEF LocalInv
<1>2. calls' = [calls EXCEPT ![k] = "idle"]
  BY DEF Returned
<1>3. \/ app' = [app EXCEPT !.starting = FALSE, !.started = ok, !.tracked = t]
      \/ app' = [app EXCEPT !.tracked = t]
  BY Zenon DEF Returned
<1>4. FALSE \in BOOLEAN
  OBVIOUS
<1>5. /\ app' \in [open : BOOLEAN, tracked : Children \cup {NoChild},
                   starting : BOOLEAN, started : BOOLEAN, hosted : BOOLEAN,
                   keep : BOOLEAN]
      /\ app'.tracked = t /\ app'.open = app.open
      /\ app'.hosted = app.hosted /\ app'.keep = app.keep
  <2>1. CASE app' = [app EXCEPT !.starting = FALSE, !.started = ok, !.tracked = t]
    BY <1>1, <1>4, <2>1, Zenon DEF LocalTyped
  <2>2. CASE app' = [app EXCEPT !.tracked = t]
    BY <1>1, <2>2, Zenon DEF LocalTyped
  <2> QED
    BY <1>3, <2>1, <2>2
<1>6. /\ calls' \in [Callers -> {"idle", "probing", "spawning"}]
      /\ ~ app.open => \A j \in Callers : calls'[j] = "idle"
  BY <1>1, <1>2 DEF LocalTyped, CallsDropped
<1> QED
  BY <1>5, <1>6

LEMMA CallStartKeeps ==
    ASSUME LocalInv, NEW k \in Callers, CallStart(k)
    PROVE  LocalInv'
<1>1. /\ app.open /\ calls' = [calls EXCEPT ![k] = "probing"]
      /\ app' = [app EXCEPT !.starting = TRUE] \/ app' = app
      /\ children' = children /\ loose' = loose /\ UNCHANGED folderVars
  BY Zenon DEF CallStart
<1>2. LocalTyped
  BY DEF LocalInv
<1>3. TRUE \in BOOLEAN
  OBVIOUS
<1>4. /\ app' \in [open : BOOLEAN, tracked : Children \cup {NoChild}, starting : BOOLEAN,
                   started : BOOLEAN, hosted : BOOLEAN, keep : BOOLEAN]
      /\ app'.open = app.open /\ app'.tracked = app.tracked
  <2>1. CASE app' = [app EXCEPT !.starting = TRUE]
    BY <1>2, <1>3, <2>1, Zenon DEF LocalTyped
  <2>2. CASE app' = app
    BY <1>2, <2>2, Zenon DEF LocalTyped
  <2> QED
    BY <1>1, <2>1, <2>2
<1>5. LocalTyped'
  <2>1. calls' \in [Callers -> {"idle", "probing", "spawning"}]
    BY <1>1, <1>2 DEF LocalTyped
  <2> QED
    BY <1>1, <1>2, <1>4, <2>1, Zenon DEF LocalTyped, folderVars
<1>6. CallsDropped' /\ ClosedLeavesNothing'
  BY <1>1, <1>4, Zenon DEF CallsDropped, ClosedLeavesNothing
<1>7. ServersAreTracked'
  BY <1>1, <1>4, Zenon DEF LocalInv, ServersAreTracked, ServerLives
<1> QED
  BY <1>1, <1>5, <1>6, <1>7, ServersMove

LEMMA ProbeKeeps ==
    ASSUME LocalInv, NEW k \in Callers, Probe(k)
    PROVE  LocalInv'
<1>1. /\ calls[k] = "probing" /\ children' = children /\ loose' = loose
      /\ UNCHANGED folderVars
      /\ \/ Returned(k, TRUE, app.tracked)
         \/ Returned(k, FALSE, app.tracked)
         \/ calls' = [calls EXCEPT ![k] = "spawning"] /\ app' = app
  BY Zenon DEF Probe
<1>2. /\ LocalTyped /\ CallsDropped /\ app.tracked \in Children \cup {NoChild}
      /\ TRUE \in BOOLEAN /\ FALSE \in BOOLEAN
  BY DEF LocalInv, LocalTyped
<1>3. app.open
  BY <1>1, <1>2 DEF CallsDropped
<1>4. /\ app' \in [open : BOOLEAN, tracked : Children \cup {NoChild}, starting : BOOLEAN,
                   started : BOOLEAN, hosted : BOOLEAN, keep : BOOLEAN]
      /\ calls' \in [Callers -> {"idle", "probing", "spawning"}]
      /\ app'.tracked = app.tracked /\ app'.open = app.open
  <2>1. CASE Returned(k, TRUE, app.tracked)
    BY <1>2, <2>1, ReturnedTyped
  <2>2. CASE Returned(k, FALSE, app.tracked)
    BY <1>2, <2>2, ReturnedTyped
  <2>3. CASE calls' = [calls EXCEPT ![k] = "spawning"] /\ app' = app
    BY <1>2, <2>3 DEF LocalTyped
  <2> QED
    BY <1>1, <2>1, <2>2, <2>3
<1>5. LocalTyped'
  BY <1>1, <1>2, <1>4, Zenon DEF LocalTyped, folderVars
<1>6. CallsDropped' /\ ClosedLeavesNothing'
  BY <1>3, <1>4, Zenon DEF CallsDropped, ClosedLeavesNothing
<1>7. ServersAreTracked'
  BY <1>1, <1>4, Zenon DEF LocalInv, ServersAreTracked, ServerLives
<1> QED
  BY <1>1, <1>5, <1>6, <1>7, ServersMove

LEMMA StartProcessKeeps ==
    ASSUME LocalInv, NEW k \in Callers, StartProcess(k)
    PROVE  LocalInv'
<1>1. /\ LocalTyped /\ CallsDropped /\ ServersAreTracked
      /\ app.tracked \in Children \cup {NoChild} /\ TRUE \in BOOLEAN
  BY DEF LocalInv, LocalTyped
<1>2. app.open /\ UNCHANGED folderVars
  BY <1>1 DEF StartProcess, CallsDropped
<1>3. CASE app.keep
  <2>1. Returned(k, TRUE, app.tracked) /\ children' = children /\ loose' = loose
    BY <1>3, Zenon DEF StartProcess
  <2>2. /\ app' \in [open : BOOLEAN, tracked : Children \cup {NoChild},
                     starting : BOOLEAN, started : BOOLEAN, hosted : BOOLEAN,
                     keep : BOOLEAN]
        /\ calls' \in [Callers -> {"idle", "probing", "spawning"}]
        /\ app'.tracked = app.tracked /\ app'.open = app.open
    BY <1>1, <2>1, ReturnedTyped
  <2>3. LocalTyped'
    BY <1>1, <1>2, <2>1, <2>2, Zenon DEF LocalTyped, folderVars
  <2>4. CallsDropped' /\ ClosedLeavesNothing'
    BY <1>2, <2>2, Zenon DEF CallsDropped, ClosedLeavesNothing
  <2>5. ServersAreTracked'
    BY <1>1, <2>1, <2>2, Zenon DEF ServersAreTracked, ServerLives
  <2> QED
    BY <1>2, <2>3, <2>4, <2>5, ServersMove
<1>4. CASE ~ app.keep
  <2>1. PICK c \in Unborn :
          children' = [children EXCEPT ![c] = "booting"] /\ Returned(k, TRUE, c)
    BY <1>4, Zenon DEF StartProcess
  <2>2. loose' = loose \cup ({app.tracked} \ {NoChild})
    BY <1>4, Zenon DEF StartProcess
  <2>3. c \in Children
    BY AppUnborn
  <2>4. /\ app' \in [open : BOOLEAN, tracked : Children \cup {NoChild},
                     starting : BOOLEAN, started : BOOLEAN, hosted : BOOLEAN,
                     keep : BOOLEAN]
        /\ calls' \in [Callers -> {"idle", "probing", "spawning"}]
        /\ app'.tracked = c /\ app'.open = app.open
    BY <1>1, <2>1, <2>3, ReturnedTyped
  <2>5. LocalTyped'
    <3>1. children' \in [Children -> {"none", "booting", "serving", "gone", "reaped"}]
      BY <1>1, <2>1 DEF LocalTyped
    <3> QED
      BY <1>1, <1>2, <2>4, <3>1, Zenon DEF LocalTyped, folderVars
  <2>6. CallsDropped' /\ ClosedLeavesNothing'
    BY <1>2, <2>4, Zenon DEF CallsDropped, ClosedLeavesNothing
  <2>7. ServersAreTracked'
    <3> SUFFICES ASSUME NEW d \in Children, d \notin loose', d # c, ServerLives(d)'
                 PROVE  FALSE
      BY <2>4, Zenon DEF ServersAreTracked
    <3>1. children'[d] = children[d]
      BY <1>1, <2>1 DEF LocalTyped
    <3>2. ServerLives(d) /\ d \notin loose
      BY <2>2, <3>1, Zenon DEF ServerLives
    <3>3. app.tracked = d
      BY <1>1, <1>2, <3>2, Zenon DEF ServersAreTracked
    <3>4. d # NoChild
      BY LocalAssumption
    <3> QED
      BY <2>2, <3>3, <3>4
  <2> QED
    BY <1>2, <2>5, <2>6, <2>7, ServersMove
<1> QED
  BY <1>3, <1>4

\* A process that takes the port or ends is as tracked as before, and one that
\* was not alive is not.
LEMMA ChildMove ==
    ASSUME LocalInv, NEW c \in Children,
           children' = [children EXCEPT ![c] = "gone"]
              \/ (ServerLives(c) /\ children' = [children EXCEPT ![c] = "serving"])
              \/ (children[c] = "gone" /\ children' = [children EXCEPT ![c] = "reaped"]),
           app' \in [open : BOOLEAN, tracked : Children \cup {NoChild},
                     starting : BOOLEAN, started : BOOLEAN, hosted : BOOLEAN,
                     keep : BOOLEAN],
           app'.open = app.open /\ app'.started = app.started,
           app'.hosted = app.hosted /\ app'.keep = app.keep,
           app'.tracked = app.tracked \/ (app.tracked = c /\ ~ ServerLives(c)),
           UNCHANGED <<calls, loose, folderVars>>
    PROVE  LocalInv'
<1>1. /\ LocalTyped /\ CallsDropped /\ ServersAreTracked /\ ClosedLeavesNothing
      /\ calls' = calls /\ loose' = loose /\ UNCHANGED folderVars
  BY DEF LocalInv
<1>2. /\ children' \in [Children -> {"none", "booting", "serving", "gone", "reaped"}]
      /\ \A d \in Children : children'[d] \in {"booting", "serving"} =>
            children[d] \in {"booting", "serving"} /\ (d = c => app'.tracked = app.tracked)
  BY <1>1 DEF LocalTyped, ServerLives
<1>3. \A d \in Children : ServerLives(d)' =>
            ServerLives(d) /\ (d = c => app'.tracked = app.tracked)
  BY <1>2, Zenon DEF ServerLives
<1>4. LocalTyped'
  BY <1>1, <1>2, Zenon DEF LocalTyped, folderVars
<1>5. CallsDropped' /\ ClosedLeavesNothing'
  BY <1>1, <1>3, Zenon DEF CallsDropped, ClosedLeavesNothing
<1>6. ServersAreTracked'
  BY <1>1, <1>3, Zenon DEF ServersAreTracked
<1> QED
  BY <1>1, <1>4, <1>5, <1>6, ServersMove

LEMMA ServerStepKeeps ==
    ASSUME LocalInv, NEW c \in Children, Boot(c) \/ Crash(c) \/ NoticeExit(c)
    PROVE  LocalInv'
<1>1. app \in [open : BOOLEAN, tracked : Children \cup {NoChild}, starting : BOOLEAN,
               started : BOOLEAN, hosted : BOOLEAN, keep : BOOLEAN]
  BY DEF LocalInv, LocalTyped
<1>2. CASE Boot(c)
  <2>1. ServerLives(c) /\ app' = app /\ UNCHANGED <<calls, loose, folderVars>>
    BY <1>2 DEF Boot, ServerLives
  <2>2. \/ children' = [children EXCEPT ![c] = "serving"]
        \/ children' = [children EXCEPT ![c] = "gone"]
    BY <1>2, Zenon DEF Boot
  <2> QED
    BY <1>1, <2>1, <2>2, ChildMove
<1>3. CASE Crash(c)
  BY <1>1, <1>3, ChildMove DEF Crash
<1>4. CASE NoticeExit(c)
  <2>1. /\ children[c] = "gone" /\ children' = [children EXCEPT ![c] = "reaped"]
        /\ app' = Forgotten(c) /\ UNCHANGED <<calls, loose, folderVars>>
    BY <1>4 DEF NoticeExit
  <2>2. ~ ServerLives(c)
    BY <2>1 DEF ServerLives
  <2>3. /\ app' \in [open : BOOLEAN, tracked : Children \cup {NoChild},
                     starting : BOOLEAN, started : BOOLEAN, hosted : BOOLEAN,
                     keep : BOOLEAN]
        /\ app'.open = app.open /\ app'.started = app.started
        /\ app'.hosted = app.hosted /\ app'.keep = app.keep
        /\ app'.tracked = app.tracked \/ app.tracked = c
    <3>1. CASE app.tracked = c /\ app' = [app EXCEPT !.tracked = NoChild]
      BY <1>1, <3>1
    <3>2. CASE app' = app
      BY <1>1, <3>2
    <3> QED
      BY <2>1, <3>1, <3>2, Zenon DEF Forgotten
  <2> QED
    BY <2>1, <2>2, <2>3, ChildMove
<1> QED
  BY <1>2, <1>3, <1>4

\* The process that is tracked, if any, is killed and forgotten.
LEMMA KilledNone ==
    ASSUME LocalInv, Killed(app.tracked)
    PROVE  /\ children' \in [Children -> {"none", "booting", "serving", "gone", "reaped"}]
           /\ \A d \in Children : ServerLives(d)' => ServerLives(d) /\ d # app.tracked
<1>1. LocalTyped /\ app.tracked \in Children \cup {NoChild}
  BY DEF LocalInv, LocalTyped
<1>2. NoChild \notin Children
  BY LocalAssumption
<1>3. CASE app.tracked = NoChild \/ ~ ServerLives(app.tracked)
  <2>1. children' = children
    BY <1>3, Zenon DEF Killed
  <2>2. ASSUME NEW d \in Children, ServerLives(d)'
        PROVE  ServerLives(d) /\ d # app.tracked
    <3>1. ServerLives(d)
      BY <2>1, <2>2, Zenon DEF ServerLives
    <3> QED
      BY <1>2, <1>3, <3>1
  <2> QED
    BY <1>1, <2>1, <2>2 DEF LocalTyped
<1>4. CASE ~ (app.tracked = NoChild \/ ~ ServerLives(app.tracked))
  <2>1. children' = [children EXCEPT ![app.tracked] = "gone"]
    BY <1>4, Zenon DEF Killed
  <2> QED
    BY <1>1, <1>4, <2>1 DEF LocalTyped, ServerLives
<1> QED
  BY <1>3, <1>4

\* The application lets go of the process it tracked.
LEMMA TrackedEnds ==
    ASSUME LocalInv, app.open, Killed(app.tracked)
    PROVE  \A d \in Children \ loose : ~ ServerLives(d)'
<1>1. ASSUME NEW d \in Children \ loose, ServerLives(d)'
      PROVE  FALSE
  <2>1. ServerLives(d) /\ d # app.tracked
    BY <1>1, KilledNone
  <2> QED
    BY <2>1, Zenon DEF LocalInv, ServersAreTracked
<1> QED
  BY <1>1

LEMMA StopServerKeeps ==
    ASSUME LocalInv, StopServer
    PROVE  LocalInv'
<1>1. /\ app.open /\ app' = [app EXCEPT !.tracked = NoChild] /\ calls' = calls
      /\ UNCHANGED folderVars
      /\ \/ Killed(app.tracked) /\ loose' = loose
         \/ loose' = loose \cup {app.tracked} /\ children' = children
  BY Zenon DEF StopServer
<1>2. LocalTyped /\ CallsDropped /\ ServersAreTracked
  BY DEF LocalInv
<1>3. /\ app' \in [open : BOOLEAN, tracked : Children \cup {NoChild},
                   starting : BOOLEAN, started : BOOLEAN, hosted : BOOLEAN,
                   keep : BOOLEAN]
      /\ app'.open = app.open
  BY <1>1, <1>2 DEF LocalTyped
<1>4. /\ children' \in [Children -> {"none", "booting", "serving", "gone", "reaped"}]
      /\ \A d \in Children \ loose' : ~ ServerLives(d)'
  <2>1. CASE Killed(app.tracked) /\ loose' = loose
    BY <1>1, <2>1, KilledNone, TrackedEnds
  <2>2. CASE loose' = loose \cup {app.tracked} /\ children' = children
    <3>1. ASSUME NEW d \in Children \ loose', ServerLives(d)'
          PROVE  FALSE
      <4>1. ServerLives(d) /\ d \notin loose /\ d # app.tracked
        BY <2>2, <3>1, Zenon DEF ServerLives
      <4> QED
        BY <1>1, <1>2, <4>1, Zenon DEF ServersAreTracked
    <3> QED
      BY <1>2, <2>2, <3>1 DEF LocalTyped
  <2> QED
    BY <1>1, <2>1, <2>2
<1>5. LocalTyped'
  BY <1>1, <1>2, <1>3, <1>4, Zenon DEF LocalTyped, folderVars
<1>6. CallsDropped' /\ ClosedLeavesNothing'
  BY <1>1, <1>3, Zenon DEF CallsDropped, ClosedLeavesNothing
<1>7. ServersAreTracked'
  BY <1>4, Zenon DEF ServersAreTracked
<1> QED
  BY <1>1, <1>5, <1>6, <1>7, ServersMove

\* A host launcher takes over, or the user changes a setting.
LEMMA SettingsKeep ==
    ASSUME LocalInv, UseLauncher \/ ChangeKeep
    PROVE  LocalInv'
<1>1. /\ app.open /\ calls' = calls /\ loose' = loose /\ UNCHANGED folderVars
      /\ \/ /\ Killed(app.tracked)
            /\ app' = [app EXCEPT !.hosted = TRUE, !.tracked = NoChild, !.started = FALSE]
         \/ app' = [app EXCEPT !.hosted = TRUE] /\ children' = children
         \/ app' = [app EXCEPT !.keep = ~ @] /\ children' = children
  BY Zenon DEF UseLauncher, ChangeKeep
<1>2. LocalTyped /\ CallsDropped /\ ServersAreTracked /\ TRUE \in BOOLEAN /\ FALSE \in BOOLEAN
  BY DEF LocalInv
<1>3. CASE /\ Killed(app.tracked)
           /\ app' = [app EXCEPT !.hosted = TRUE, !.tracked = NoChild, !.started = FALSE]
  <2>1. /\ app' \in [open : BOOLEAN, tracked : Children \cup {NoChild},
                     starting : BOOLEAN, started : BOOLEAN, hosted : BOOLEAN,
                     keep : BOOLEAN]
        /\ app'.open = app.open
    BY <1>2, <1>3, Zenon DEF LocalTyped
  <2>2. LocalTyped'
    BY <1>1, <1>2, <1>3, <2>1, KilledNone, Zenon DEF LocalTyped, folderVars
  <2>3. ServersAreTracked'
    BY <1>1, <1>3, TrackedEnds, Zenon DEF ServersAreTracked
  <2>4. CallsDropped' /\ ClosedLeavesNothing'
    BY <1>1, <2>1, Zenon DEF CallsDropped, ClosedLeavesNothing
  <2> QED
    BY <1>1, <2>2, <2>3, <2>4, ServersMove
<1>4. CASE /\ children' = children
           /\ \/ app' = [app EXCEPT !.hosted = TRUE]
              \/ app' = [app EXCEPT !.keep = ~ @]
  <2>1. /\ app' \in [open : BOOLEAN, tracked : Children \cup {NoChild},
                     starting : BOOLEAN, started : BOOLEAN, hosted : BOOLEAN,
                     keep : BOOLEAN]
        /\ app'.open = app.open /\ app'.tracked = app.tracked
    <3>1. CASE app' = [app EXCEPT !.hosted = TRUE]
      BY <1>2, <3>1, Zenon DEF LocalTyped
    <3>2. CASE app' = [app EXCEPT !.keep = ~ @]
      <4>1. (~ app.keep) \in BOOLEAN
        OBVIOUS
      <4>2. app' = [app EXCEPT !.keep = ~ app.keep]
        BY <3>2
      <4> QED
        BY <1>2, <4>1, <4>2, Zenon DEF LocalTyped
    <3> QED
      BY <1>4, <3>1, <3>2
  <2>2. LocalTyped'
    BY <1>1, <1>2, <1>4, <2>1, Zenon DEF LocalTyped, folderVars
  <2>3. ServersAreTracked'
    BY <1>1, <1>2, <1>4, <2>1, Zenon DEF ServersAreTracked, ServerLives
  <2>4. CallsDropped' /\ ClosedLeavesNothing'
    BY <1>1, <2>1, Zenon DEF CallsDropped, ClosedLeavesNothing
  <2> QED
    BY <1>1, <2>2, <2>3, <2>4, ServersMove
<1> QED
  BY <1>1, <1>3, <1>4

LEMMA CloseKeeps ==
    ASSUME LocalInv, Close
    PROVE  LocalInv'
<1>1. /\ app.open /\ calls' = [k \in Callers |-> "idle"] /\ update' = "idle"
      /\ loose' = loose /\ folder' = folder
  BY DEF Close
<1>2. /\ LocalTyped /\ ReplacementInv /\ TRUE \in BOOLEAN /\ FALSE \in BOOLEAN
      /\ app.tracked \in Children \cup {NoChild}
  BY DEF LocalInv, LocalTyped
<1>3. /\ app' \in [open : BOOLEAN, tracked : Children \cup {NoChild},
                   starting : BOOLEAN, started : BOOLEAN, hosted : BOOLEAN,
                   keep : BOOLEAN]
      /\ app'.open = FALSE
      /\ children' \in [Children -> {"none", "booting", "serving", "gone", "reaped"}]
      /\ ClosedLeavesNothing'
  <2>1. CASE app.started /\ ~ app.hosted /\ ~ app.keep
    <3>1. Killed(app.tracked) /\ app' = [app EXCEPT !.open = FALSE, !.tracked = NoChild]
      BY <2>1, Zenon DEF Close
    <3>2. /\ app' \in [open : BOOLEAN, tracked : Children \cup {NoChild},
                       starting : BOOLEAN, started : BOOLEAN, hosted : BOOLEAN,
                       keep : BOOLEAN]
          /\ app'.open = FALSE
      BY <1>2, <3>1, Zenon DEF LocalTyped
    <3>3. ClosedLeavesNothing'
      BY <1>1, <3>1, TrackedEnds, Zenon DEF ClosedLeavesNothing
    <3> QED
      BY <3>1, <3>2, <3>3, KilledNone
  <2>2. CASE ~ (app.started /\ ~ app.hosted /\ ~ app.keep)
    <3>1. children' = children /\ app' = [app EXCEPT !.open = FALSE]
      BY <2>2, Zenon DEF Close
    <3>2. /\ app' \in [open : BOOLEAN, tracked : Children \cup {NoChild},
                       starting : BOOLEAN, started : BOOLEAN, hosted : BOOLEAN,
                       keep : BOOLEAN]
          /\ app'.open = FALSE /\ app'.started = app.started
          /\ app'.hosted = app.hosted /\ app'.keep = app.keep
      BY <1>2, <3>1, Zenon DEF LocalTyped
    <3>3. ClosedLeavesNothing'
      BY <2>2, <3>2, Zenon DEF ClosedLeavesNothing
    <3> QED
      BY <1>2, <3>1, <3>2, <3>3, Zenon DEF LocalTyped
  <2> QED
    BY <2>1, <2>2
<1>4. LocalTyped' /\ CallsDropped'
  <2>1. /\ calls' \in [Callers -> {"idle", "probing", "spawning"}]
        /\ \A k \in Callers : calls'[k] = "idle"
    BY <1>1
  <2> QED
    BY <1>1, <1>2, <1>3, <2>1, Zenon DEF LocalTyped, CallsDropped
<1>5. ServersAreTracked'
  BY <1>3, Zenon DEF ServersAreTracked
<1>6. ReplacementInv'
  BY <1>1, <1>2, SMT DEF ReplacementInv, ACopyRemains
<1> QED
  BY <1>3, <1>4, <1>5, <1>6 DEF LocalInv

LEMMA LocalStarts ==
    ASSUME LocalInit
    PROVE  LocalInv
<1>1. LocalTyped /\ CallsDropped
  BY DEF LocalInit, LocalTyped, CallsDropped, CopyStates
<1>2. ReplacementInv
  BY SMT DEF LocalInit, ReplacementInv, ACopyRemains
<1>3. ServersAreTracked /\ ClosedLeavesNothing
  BY DEF LocalInit, ServersAreTracked, ClosedLeavesNothing, ServerLives
<1> QED
  BY <1>1, <1>2, <1>3 DEF LocalInv

LEMMA LocalSteps ==
    ASSUME LocalInv, [LocalNext]_localVars
    PROVE  LocalInv'
<1>1. CASE UNCHANGED localVars
  <2>1. /\ app' = app /\ children' = children /\ calls' = calls /\ loose' = loose
        /\ folder' = folder /\ update' = update
    BY <1>1 DEF localVars
  <2> QED
    BY <2>1, Zenon DEF LocalInv, LocalTyped, CallsDropped, ReplacementInv, ServersAreTracked,
       ClosedLeavesNothing, ACopyRemains, ServerLives
<1>2. CASE LocalNext
  <2>1. ASSUME NEW k \in Callers, CallStart(k) \/ Probe(k) \/ StartProcess(k)
        PROVE  LocalInv'
    BY <2>1, CallStartKeeps, ProbeKeeps, StartProcessKeeps
  <2>2. ASSUME NEW c \in Children, Boot(c) \/ Crash(c) \/ NoticeExit(c)
        PROVE  LocalInv'
    BY <2>2, ServerStepKeeps
  <2>3. ASSUME StopServer \/ UseLauncher \/ ChangeKeep \/ Close
        PROVE  LocalInv'
    BY <2>3, StopServerKeeps, SettingsKeep, CloseKeeps
  <2> QED
    BY <1>2, <2>1, <2>2, <2>3, ReplacementSteps, Zenon DEF LocalNext
<1> QED
  BY <1>1, <1>2

\* However starts of the server overlap, its processes die and the application
\* is closed: a process it started is the one it tracks or one it lost by a
\* named accident, and a whole copy of the bundled system remains (startServer,
\* _trackManagedServer, _replaceBundledSystemFromGit).
THEOREM LocalStaysSound == LocalSpec => []LocalSound
<1>1. LocalInit => LocalInv
  BY LocalStarts
<1>2. LocalInv /\ [LocalNext]_localVars => LocalInv'
  BY LocalSteps
<1>3. LocalInv => LocalSound
  BY Zenon DEF LocalInv, ReplacementInv, LocalSound
<1> QED
  BY <1>1, <1>2, <1>3, PTL DEF LocalSpec

-----------------------------------------------------------------------------
(***************************************************************************)
(* Conversations of the HTTP server.  A state belongs to the conversation  *)
(* of the request that made it, whatever the table drops, and its last     *)
(* answer was given under its lock.                                        *)
(***************************************************************************)

\* The phases in which a request has a state, and those in which it holds the
\* lock of that.
Unplaced == {"new", "counted", "admitted", "refused"}
Locking == {"working", "asking", "replied"}
Holds(r) ==
    \/ request[r].pc \in Locking
    \/ request[r].pc = "failed" /\ request[r].state # NoRequest

HttpTypes ==
    /\ request \in [Requests -> Request]
    /\ states \in [Requests -> ConversationState]
    /\ credited \in [Requests -> Nat] /\ rate \in Nat /\ pressed \in BOOLEAN
    /\ retained \in Seq(Conversations \X Requests)

\* A request has a state once it has looked for one, and that is its
\* conversation's: the one of the request that made it.
StatesFit ==
    \A r \in Requests :
        /\ request[r].pc \in Unplaced => request[r].state = NoRequest
        /\ request[r].pc \in {"waiting", "done"} \cup Locking =>
              request[r].state # NoRequest
        /\ request[r].state # NoRequest =>
              /\ request[request[r].state].state = request[r].state
              /\ SameConversation(request[r].state, r)

LocksFit ==
    /\ \A r \in Requests : Holds(r) => states[request[r].state].holder = r
    /\ \A s, h \in Requests :
          states[s].holder = h => Holds(h) /\ request[h].state = s

\* The table holds at most one state of a conversation, and none that is not
\* of its conversation.
TableFits ==
    /\ Len(retained) <= StateLimit
    /\ \A i, j \in DOMAIN retained : retained[i][1] = retained[j][1] => i = j
    /\ \A i \in DOMAIN retained :
          LET s == StateOf(retained[i])
          IN  request[s].state = s /\ request[s].conversation = retained[i][1]

\* Nothing is dropped before the table was full.
AllRetained ==
    ~ pressed =>
        \A r \in Requests :
            request[r].state # NoRequest /\ request[r].conversation # NoConversation =>
                \E i \in DOMAIN retained :
                    retained[i] = <<request[r].conversation, request[r].state>>

\* A last answer was given in its state and has no outcome yet.
AnswersFit ==
    /\ \A s \in Requests :
          LET a == states[s].last
          IN  a # NoRequest => /\ request[a].state = s /\ credited[a] = 0
                               /\ request[a].pc \in {"replied", "done"}
    /\ \A a \in Requests :
          /\ credited[a] <= 1
          /\ credited[a] > 0 => request[a].pc \in {"replied", "done"}

\* The requests whose count was written.
Charged ==
    {q \in Requests : request[q].count > 0 /\ request[q].pc # "counted"}

CountsFit ==
    /\ rate <= Cardinality(Charged)
    /\ \A r \in Requests :
          /\ request[r].pc = "new" => request[r].count = 0
          /\ request[r].pc = "counted" => request[r].count <= Cardinality(Charged)
          /\ request[r].pc = "refused" /\ request[r].count > 0 =>
                Cardinality(Charged \ {r}) >= RateLimit

HttpInv ==
    /\ HttpTypes /\ StatesFit /\ LocksFit /\ TableFits /\ AllRetained
    /\ AnswersFit /\ CountsFit

\* What a request does besides looking for its state.
PlainStep(r) ==
    \/ RefuseRequest(r) \/ ReadRate(r) \/ WriteRate(r)
    \/ TakeState(r) \/ GiveFeedback(r)
    \/ AnswerOtherwise(r) \/ AskModel(r) \/ AnswerArrives(r)
    \/ RequestFails(r) \/ EndResponse(r)

LEMMA RequestFacts ==
    ASSUME HttpInv, NEW r \in Requests
    PROVE  /\ request[r] \in Request /\ request[r].state \in Requests \cup {NoRequest}
           /\ request[r].count \in Nat /\ request[r].pc \in RequestPhases
           /\ request[r].conversation \in Conversations \cup {NoConversation}
           /\ r # NoRequest
BY HttpAssumption DEF HttpInv, HttpTypes, Request, Requests, NoRequest

LEMMA StateFacts ==
    ASSUME HttpInv, NEW s \in Requests
    PROVE  /\ states[s] \in ConversationState
           /\ states[s].holder \in Requests \cup {NoRequest}
           /\ states[s].last \in Requests \cup {NoRequest}
BY DEF HttpInv, HttpTypes, ConversationState

\* How far request r gets.
PlainMoves(r) ==
    \/ request[r].pc = "new" /\ request'[r].pc \in {"refused", "counted", "admitted"}
    \/ request[r].pc = "counted" /\ request'[r].pc \in {"refused", "failed", "admitted"}
    \/ request[r].pc = "admitted" /\ request'[r].pc = "failed"
    \/ request[r].pc = "waiting" /\ request'[r].pc = "working"
    \/ request[r].pc = "working" /\ request'[r].pc \in {"asking", "replied", "failed"}
    \/ request[r].pc = "asking" /\ request'[r].pc \in {"replied", "failed"}
    \/ request[r].pc = "replied" /\ request'[r].pc = "done"
    \/ /\ request[r].pc = "failed" /\ request[r].state # NoRequest
       /\ request'[r].pc = "done"

\* Other requests stay as they are, and whoever acts keeps its conversation
\* and its state.
PlainRequest(r) ==
    /\ request' \in [Requests -> Request]
    /\ \A q \in Requests \ {r} : request'[q] = request[q]
    /\ request'[r].state = request[r].state
    /\ request'[r].conversation = request[r].conversation

LEMMA CountsTo ==
    ASSUME HttpInv, NEW r \in Requests, NEW pc \in RequestPhases, NEW n \in Nat,
           request' = [request EXCEPT ![r].count = n, ![r].pc = pc]
    PROVE  PlainRequest(r) /\ request'[r].pc = pc /\ request'[r].count = n
BY DEF HttpInv, HttpTypes, Request, PlainRequest

LEMMA MovesTo ==
    ASSUME HttpInv, NEW r \in Requests, NEW pc \in RequestPhases, RequestTo(r, pc)
    PROVE  /\ PlainRequest(r) /\ request'[r].pc = pc
           /\ request'[r].count = request[r].count
BY DEF HttpInv, HttpTypes, Request, PlainRequest, RequestTo

\* What the counter makes of a request.
ReadStep(r) ==
    /\ request[r].pc = "new"
    /\ \/ request'[r].pc = "counted" /\ request'[r].count = rate
       \/ request'[r].pc = "admitted" /\ request'[r].count = 0

WriteStep(r) ==
    /\ request[r].pc = "counted"
    /\ \/ /\ request'[r].pc = "failed" /\ request'[r].count = request[r].count
          /\ request[r].count = 0 /\ rate' = rate
       \/ /\ request'[r].count = request[r].count + 1 /\ rate' = request[r].count + 1
          /\ request'[r].pc \in {"refused", "admitted"}
          /\ request'[r].pc = "refused" => request[r].count >= RateLimit

LEMMA ReadMoves ==
    ASSUME HttpInv, NEW r \in Requests, ReadRate(r)
    PROVE  PlainRequest(r) /\ ReadStep(r)
<1>1. rate \in Nat /\ request[r].pc = "new"
  BY DEF ReadRate, Arrives, RequestAt, HttpInv, HttpTypes
<1>2. PICK limited \in BOOLEAN :
          request' = [request EXCEPT
              ![r].count = IF limited THEN rate ELSE 0,
              ![r].pc = IF limited THEN "counted" ELSE "admitted"]
  BY DEF ReadRate
<1>3. CASE limited
  BY <1>1, <1>2, <1>3, CountsTo DEF RequestPhases, ReadStep
<1>4. CASE ~ limited
  BY <1>1, <1>2, <1>4, CountsTo DEF RequestPhases, ReadStep
<1>5. QED
  BY <1>3, <1>4

LEMMA WriteMoves ==
    ASSUME HttpInv, NEW r \in Requests, WriteRate(r)
    PROVE  PlainRequest(r) /\ WriteStep(r)
<1> DEFINE n == request[r].count + 1
<1>1. /\ request[r].count \in Nat /\ request[r].pc = "counted" /\ n \in Nat
      /\ RateLimit \in Nat
  BY RequestFacts, HttpAssumption DEF WriteRate, RequestAt
<1>2. CASE n = 1 /\ rate # 0
  BY <1>1, <1>2, MovesTo DEF WriteRate, RequestPhases, WriteStep
<1>3. CASE ~ (n = 1 /\ rate # 0)
  <2>1. /\ rate' = n
        /\ request' = [request EXCEPT
               ![r].count = n,
               ![r].pc = IF n > RateLimit THEN "refused" ELSE "admitted"]
    BY <1>3 DEF WriteRate
  <2>2. CASE n > RateLimit
    <3>1. request' = [request EXCEPT ![r].count = n, ![r].pc = "refused"]
      BY <2>1, <2>2
    <3>2. PlainRequest(r) /\ request'[r].pc = "refused" /\ request'[r].count = n
      BY <1>1, <3>1, CountsTo DEF RequestPhases
    <3>3. QED
      BY <1>1, <2>1, <2>2, <3>2 DEF WriteStep
  <2>3. CASE ~ (n > RateLimit)
    <3>1. request' = [request EXCEPT ![r].count = n, ![r].pc = "admitted"]
      BY <2>1, <2>3
    <3>2. PlainRequest(r) /\ request'[r].pc = "admitted" /\ request'[r].count = n
      BY <1>1, <3>1, CountsTo DEF RequestPhases
    <3>3. QED
      BY <1>1, <2>1, <3>2 DEF WriteStep
  <2>4. QED
    BY <2>2, <2>3
<1>4. QED
  BY <1>2, <1>3

\* Every other step leaves the counter alone.
LEMMA OtherMoves ==
    ASSUME HttpInv, NEW r \in Requests, PlainStep(r), ~ ReadRate(r), ~ WriteRate(r)
    PROVE  /\ PlainRequest(r) /\ PlainMoves(r) /\ rate' = rate
           /\ request'[r].count = request[r].count /\ request[r].pc # "counted"
<1>2. CASE RefuseRequest(r)
  BY <1>2, MovesTo DEF RefuseRequest, Arrives, RequestAt, PlainMoves, RequestPhases
<1>5. CASE TakeState(r)
  BY <1>5, MovesTo DEF TakeState, RequestAt, PlainMoves, RequestPhases
<1>6. CASE GiveFeedback(r)
  BY <1>6, MovesTo DEF GiveFeedback, RequestAt, PlainMoves, RequestPhases
<1>7. CASE AnswerOtherwise(r) \/ AskModel(r) \/ AnswerArrives(r)
  BY <1>7, MovesTo DEF AnswerOtherwise, AskModel, AnswerArrives, RequestAt,
                       PlainMoves, RequestPhases
<1>8. CASE RequestFails(r)
  BY <1>8, MovesTo DEF RequestFails, RequestAt, PlainMoves, RequestPhases
<1>9. CASE EndResponse(r)
  BY <1>9, MovesTo DEF EndResponse, RequestAt, PlainMoves, RequestPhases
<1>10. QED
  BY <1>2, <1>5, <1>6, <1>7, <1>8, <1>9 DEF PlainStep

LEMMA PlainRequests ==
    ASSUME HttpInv, NEW r \in Requests, PlainStep(r)
    PROVE  /\ PlainRequest(r) /\ PlainMoves(r)
           /\ retained' = retained /\ pressed' = pressed
<1>1. PlainRequest(r) /\ PlainMoves(r)
  BY ReadMoves, WriteMoves, OtherMoves DEF ReadStep, WriteStep, PlainMoves
<1>2. retained' = retained /\ pressed' = pressed
  BY DEF PlainStep, RefuseRequest, ReadRate, WriteRate, TakeState, GiveFeedback,
         AnswerOtherwise, AskModel, AnswerArrives, RequestFails, EndResponse, tables
<1>3. QED
  BY <1>1, <1>2

\* States change where their last answer does, or where their lock is taken or
\* given back.
LEMMA PlainStates ==
    ASSUME HttpInv, NEW r \in Requests, PlainStep(r)
    PROVE  /\ states' \in [Requests -> ConversationState]
           /\ \A s \in Requests \ {request[r].state} : states'[s] = states[s]
<1>1. states \in [Requests -> ConversationState] /\ r \in Requests \cup {NoRequest}
  BY DEF HttpInv, HttpTypes
<1> DEFINE s == request[r].state
<1>2. CASE UNCHANGED states
  BY <1>1, <1>2
<1>3. CASE TakeState(r)
  <2>1. states' = [states EXCEPT ![s].holder = r]
    BY <1>3 DEF TakeState
  <2>2. QED
    BY <1>1, <2>1, RequestFacts, StateFacts DEF ConversationState
<1>4. CASE GiveFeedback(r)
  BY <1>1, <1>4, RequestFacts, StateFacts DEF GiveFeedback, ConversationState
<1>5. CASE AnswerArrives(r)
  <2>1. PICK last \in Requests \cup {NoRequest} :
            \/ states' = [states EXCEPT ![request[r].state].last = last]
            \/ UNCHANGED states
    BY <1>1, <1>5 DEF AnswerArrives
  <2>2. QED
    BY <1>1, <2>1, RequestFacts, StateFacts DEF ConversationState
<1>6. CASE EndResponse(r)
  BY <1>1, <1>6, RequestFacts, StateFacts DEF EndResponse, ConversationState
<1>7. QED
  BY <1>2, <1>3, <1>4, <1>5, <1>6
  DEF PlainStep, RefuseRequest, ReadRate, WriteRate, AnswerOtherwise, AskModel,
      RequestFails, tables

\* Feedback credits the last answer of the state and takes it from there; the
\* answer of a call becomes the last one.
LEMMA PlainCredits ==
    ASSUME HttpInv, NEW r \in Requests, PlainStep(r)
    PROVE  LET s == request[r].state
           IN  \/ /\ credited' = credited
                  /\ \A q \in Requests : states'[q].last = states[q].last
               \/ /\ credited' = credited /\ s \in Requests
                  /\ request[r].pc = "asking" /\ request'[r].pc = "replied"
                  /\ states'[s].last \in {r, NoRequest}
               \/ /\ s \in Requests /\ states[s].last \in Requests
                  /\ states'[s].last = NoRequest
                  /\ credited' = [credited EXCEPT ![states[s].last] = @ + 1]
<1> DEFINE s == request[r].state
<1>1. states \in [Requests -> ConversationState]
  BY DEF HttpInv, HttpTypes
<1>2. CASE GiveFeedback(r)
  <2>1. s \in Requests /\ states[s].last \in Requests
    BY <1>2, RequestFacts, StateFacts
    DEF GiveFeedback, RequestAt, HttpInv, StatesFit, Locking
  <2>2. CASE UNCHANGED <<credited, states>>
    BY <2>2
  <2>3. CASE /\ credited' = [credited EXCEPT ![states[s].last] = @ + 1]
             /\ states' = [states EXCEPT ![s].last = NoRequest]
    BY <1>1, <2>1, <2>3 DEF ConversationState
  <2>4. QED
    BY <1>2, <2>2, <2>3 DEF GiveFeedback
<1>3. CASE AnswerArrives(r)
  <2>1. s \in Requests /\ request[r].pc = "asking" /\ request'[r].pc = "replied"
    BY <1>3, RequestFacts, MovesTo
    DEF AnswerArrives, RequestAt, HttpInv, StatesFit, Locking, RequestPhases
  <2>2. PICK last \in {r, NoRequest} :
            \/ states' = [states EXCEPT ![s].last = last]
            \/ UNCHANGED states
    BY <1>3 DEF AnswerArrives
  <2>3. credited' = credited
    BY <1>3 DEF AnswerArrives
  <2>4. CASE UNCHANGED states
    BY <2>3, <2>4
  <2>5. CASE states' = [states EXCEPT ![s].last = last]
    BY <1>1, <2>1, <2>3, <2>5 DEF ConversationState
  <2>6. QED
    BY <2>2, <2>4, <2>5
<1>4. CASE TakeState(r) \/ EndResponse(r)
  <2>1. credited' = credited
    BY <1>4 DEF TakeState, EndResponse
  <2>2. \A q \in Requests : states'[q].last = states[q].last
    BY <1>1, <1>4 DEF TakeState, EndResponse, ConversationState
  <2>3. QED
    BY <2>1, <2>2
<1>5. CASE UNCHANGED <<credited, states>>
  BY <1>5
<1>6. QED
  BY <1>2, <1>3, <1>4, <1>5
  DEF PlainStep, RefuseRequest, ReadRate, WriteRate, AnswerOtherwise, AskModel,
      RequestFails, tables

LEMMA PlainTypes ==
    ASSUME HttpInv, NEW r \in Requests, PlainStep(r)
    PROVE  HttpTypes'
<1>1. credited' \in [Requests -> Nat]
  <2>1. credited \in [Requests -> Nat]
    BY DEF HttpInv, HttpTypes
  <2>2. \/ credited' = credited
        \/ \E a \in Requests : credited' = [credited EXCEPT ![a] = @ + 1]
    BY PlainCredits
  <2>3. QED
    BY <2>1, <2>2
<1>2. rate' \in Nat
  <2>1. CASE ReadRate(r)
    BY <2>1 DEF ReadRate, HttpInv, HttpTypes
  <2>2. CASE WriteRate(r)
    <3>1. WriteStep(r)
      BY <2>2, WriteMoves
    <3>2. rate' = rate \/ rate' = request[r].count + 1
      BY <3>1 DEF WriteStep
    <3>3. rate \in Nat /\ request[r].count \in Nat
      BY RequestFacts DEF HttpInv, HttpTypes
    <3>4. QED
      BY <3>2, <3>3
  <2>3. CASE ~ ReadRate(r) /\ ~ WriteRate(r)
    BY <2>3, OtherMoves DEF HttpInv, HttpTypes
  <2>4. QED
    BY <2>1, <2>2, <2>3
<1>3. QED
  BY <1>1, <1>2, PlainRequests, PlainStates DEF HttpInv, HttpTypes, PlainRequest

LEMMA PlainStatesFit ==
    ASSUME HttpInv, NEW r \in Requests, PlainStep(r)
    PROVE  StatesFit'
<1>1. /\ \A q \in Requests : /\ request'[q].state = request[q].state
                             /\ request'[q].conversation = request[q].conversation
      /\ \A q \in Requests \ {r} : request'[q] = request[q]
      /\ PlainMoves(r)
  BY PlainRequests DEF PlainRequest
<1>2. ASSUME NEW q \in Requests
      PROVE  /\ request'[q].pc \in Unplaced => request'[q].state = NoRequest
             /\ request'[q].pc \in {"waiting", "done"} \cup Locking =>
                   request'[q].state # NoRequest
  <2>1. CASE q = r
    BY <1>1, <2>1 DEF PlainMoves, HttpInv, StatesFit, Unplaced, Locking
  <2>2. CASE q # r
    BY <1>1, <2>2 DEF HttpInv, StatesFit
  <2>3. QED
    BY <2>1, <2>2
<1>3. ASSUME NEW q \in Requests, request'[q].state # NoRequest
      PROVE  /\ request'[request'[q].state].state = request'[q].state
             /\ request'[request'[q].state].conversation = request'[q].conversation
  <2>1. request[q].state \in Requests
    BY <1>1, <1>3, RequestFacts
  <2>2. QED
    BY <1>1, <1>3, <2>1 DEF HttpInv, StatesFit, SameConversation
<1>4. QED
  BY <1>2, <1>3 DEF StatesFit, SameConversation

\* A state's holder changes where its lock is taken, or given back by the one
\* that holds it.
LEMMA PlainHolders ==
    ASSUME HttpInv, NEW r \in Requests, PlainStep(r)
    PROVE  LET s == request[r].state
           IN  \/ /\ \A q \in Requests : states'[q].holder = states[q].holder
                  /\ Holds(r)' <=> Holds(r)
               \/ /\ s \in Requests /\ states[s].holder = NoRequest
                  /\ states'[s].holder = r /\ Holds(r)'
               \/ /\ s \in Requests /\ states[s].holder = r
                  /\ states'[s].holder = NoRequest /\ ~ Holds(r)'
<1> DEFINE s == request[r].state
<1>1. PlainRequest(r) /\ PlainMoves(r) /\ request'[r].state = s
  BY PlainRequests DEF PlainRequest
<1>2. states \in [Requests -> ConversationState]
  BY DEF HttpInv, HttpTypes
<1>3. CASE TakeState(r)
  <2>1. s \in Requests /\ states[s].holder = NoRequest /\ RequestTo(r, "working")
    BY <1>3, RequestFacts DEF TakeState, RequestAt, HttpInv, StatesFit
  <2>2. states'[s].holder = r
    BY <1>2, <1>3, <2>1 DEF TakeState, ConversationState
  <2>3. request'[r].pc = "working"
    BY <2>1, MovesTo DEF RequestPhases
  <2>4. QED
    BY <2>1, <2>2, <2>3 DEF Holds, Locking
<1>4. CASE EndResponse(r)
  <2>1. Holds(r) /\ s \in Requests /\ request'[r].pc = "done"
    BY <1>4, RequestFacts, MovesTo
    DEF EndResponse, RequestAt, HttpInv, StatesFit, Holds, Locking, RequestPhases
  <2>2. states[s].holder = r
    BY <2>1 DEF HttpInv, LocksFit
  <2>3. states'[s].holder = NoRequest
    BY <1>2, <1>4, <2>1 DEF EndResponse, ConversationState
  <2>4. QED
    BY <2>1, <2>2, <2>3 DEF Holds, Locking
<1>5. CASE ~ TakeState(r) /\ ~ EndResponse(r)
  <2>1. \A q \in Requests : states'[q].holder = states[q].holder
    <3>1. CASE UNCHANGED states
      BY <3>1
    <3>2. CASE GiveFeedback(r)
      BY <1>2, <3>2, StateFacts DEF GiveFeedback, ConversationState
    <3>3. CASE AnswerArrives(r)
      <4>1. PICK last \in Requests \cup {NoRequest} :
                \/ states' = [states EXCEPT ![request[r].state].last = last]
                \/ UNCHANGED states
        BY <3>3 DEF AnswerArrives
      <4>2. QED
        BY <1>2, <4>1, StateFacts DEF ConversationState
    <3>4. QED
      BY <1>5, <3>1, <3>2, <3>3
      DEF PlainStep, RefuseRequest, ReadRate, WriteRate, AnswerOtherwise, AskModel,
          RequestFails, tables
  <2>2. request[r].pc \notin {"waiting", "replied"}
    BY <1>5
    DEF PlainStep, RefuseRequest, ReadRate, WriteRate, GiveFeedback, AnswerOtherwise,
        AskModel, AnswerArrives, RequestFails, RequestAt, Arrives
  <2>3. request[r].pc # "failed"
    BY <1>5
    DEF PlainStep, RefuseRequest, ReadRate, WriteRate, GiveFeedback, AnswerOtherwise,
        AskModel, AnswerArrives, RequestFails, RequestAt, Arrives
  <2>4. Holds(r)' <=> Holds(r)
    BY <1>1, <2>2, <2>3 DEF PlainMoves, Holds, Locking, HttpInv, StatesFit, Unplaced
  <2>5. QED
    BY <2>1, <2>4
<1>6. QED
  BY <1>3, <1>4, <1>5

LEMMA PlainLocks ==
    ASSUME HttpInv, NEW r \in Requests, PlainStep(r)
    PROVE  LocksFit'
<1>1. /\ \A q \in Requests : request'[q].state = request[q].state
      /\ \A q \in Requests \ {r} : request'[q] = request[q]
      /\ \A q \in Requests \ {r} : Holds(q)' <=> Holds(q)
  BY PlainRequests DEF PlainRequest, Holds
<1>2. \A s \in Requests \ {request[r].state} : states'[s] = states[s]
  BY PlainStates
<1>3. \A q \in Requests : Holds(q) => request[q].state \in Requests
  BY RequestFacts DEF Holds, HttpInv, StatesFit, Locking
<1>4. r # NoRequest
  BY RequestFacts
<1> DEFINE t == request[r].state
           Locked(q) == Holds(q)' => states'[request'[q].state].holder = q
           Held(s, h) == states'[s].holder = h => Holds(h)' /\ request'[h].state = s
<1>5. SUFFICES \A q, h \in Requests : Locked(q) /\ Held(q, h)
  BY DEF LocksFit
<1>6. /\ \A q \in Requests : Holds(q) => states[request[q].state].holder = q
      /\ \A s, h \in Requests :
            states[s].holder = h => Holds(h) /\ request[h].state = s
  BY DEF HttpInv, LocksFit
<1>7. CASE /\ \A q \in Requests : states'[q].holder = states[q].holder
           /\ Holds(r)' <=> Holds(r)
  <2>1. \A q \in Requests : Holds(q)' <=> Holds(q)
    BY <1>1, <1>7
  <2>2. \A q \in Requests : Locked(q)
    BY <1>1, <1>3, <1>6, <1>7, <2>1
  <2>3. \A s, h \in Requests : Held(s, h)
    BY <1>1, <1>6, <1>7, <2>1
  <2>4. QED
    BY <2>2, <2>3
<1>8. CASE /\ t \in Requests /\ states[t].holder = NoRequest
           /\ states'[t].holder = r /\ Holds(r)'
  <2>1. ASSUME NEW q \in Requests \ {r}, Holds(q)'
        PROVE  Locked(q)
    <3>1. request[q].state \in Requests /\ states[request[q].state].holder = q
      BY <1>1, <1>3, <1>6, <2>1
    <3>2. request[q].state # t /\ request'[q].state = request[q].state
      BY <1>1, <1>8, <3>1, RequestFacts
    <3>3. QED
      BY <1>2, <3>1, <3>2
  <2>2. Locked(r)
    BY <1>1, <1>8
  <2>3. \A s \in Requests \ {t}, h \in Requests \ {r} : Held(s, h)
    BY <1>1, <1>2, <1>6
  <2>4. \A s \in Requests \ {t} : Held(s, r)
    BY <1>2, <1>6
  <2>5. \A h \in Requests : Held(t, h)
    BY <1>1, <1>8
  <2>6. QED
    BY <2>1, <2>2, <2>3, <2>4, <2>5
<1>9. CASE /\ t \in Requests /\ states[t].holder = r
           /\ states'[t].holder = NoRequest /\ ~ Holds(r)'
  <2>1. \A q \in Requests \ {r} : Locked(q)
    BY <1>1, <1>2, <1>3, <1>4, <1>6, <1>9
  <2>2. Locked(r)
    BY <1>9
  <2>3. \A s \in Requests \ {t}, h \in Requests \ {r} : Held(s, h)
    BY <1>1, <1>2, <1>6
  <2>4. \A s \in Requests \ {t} : Held(s, r)
    BY <1>2, <1>6
  <2>5. \A h \in Requests : Held(t, h)
    BY <1>4, <1>9, RequestFacts
  <2>6. QED
    BY <2>1, <2>2, <2>3, <2>4, <2>5
<1>10. QED
  BY <1>7, <1>8, <1>9, PlainHolders

\* The table stays, and with it what it names.
LEMMA PlainTables ==
    ASSUME HttpInv, NEW r \in Requests, PlainStep(r)
    PROVE  TableFits' /\ AllRetained'
<1>1. /\ \A q \in Requests : /\ request'[q].state = request[q].state
                             /\ request'[q].conversation = request[q].conversation
      /\ retained' = retained /\ pressed' = pressed
  BY PlainRequests DEF PlainRequest
<1>2. \A i \in DOMAIN retained : StateOf(retained[i]) \in Requests
  BY DEF HttpInv, HttpTypes, StateOf
<1>3. TableFits'
  BY <1>1, <1>2 DEF HttpInv, TableFits, StateOf
<1>4. AllRetained'
  BY <1>1 DEF HttpInv, AllRetained
<1>5. QED
  BY <1>3, <1>4

LEMMA PlainAnswers ==
    ASSUME HttpInv, NEW r \in Requests, PlainStep(r)
    PROVE  AnswersFit'
<1>1. /\ \A q \in Requests : request'[q].state = request[q].state
      /\ \A q \in Requests \ {r} : request'[q] = request[q]
      /\ PlainMoves(r)
  BY PlainRequests DEF PlainRequest
<1>2. \A s \in Requests \ {request[r].state} : states'[s] = states[s]
  BY PlainStates
<1>3. \A q \in Requests :
          request[q].pc \in {"replied", "done"} => request'[q].pc \in {"replied", "done"}
  BY <1>1 DEF PlainMoves
<1>4. /\ credited \in [Requests -> Nat] /\ NoRequest \notin Requests
      /\ \A s \in Requests : states[s].last \in Requests \cup {NoRequest}
  BY StateFacts DEF HttpInv, HttpTypes, Requests, NoRequest
<1>5. /\ \A s \in Requests :
            states[s].last # NoRequest =>
                /\ request[states[s].last].state = s /\ credited[states[s].last] = 0
                /\ request[states[s].last].pc \in {"replied", "done"}
      /\ \A a \in Requests :
            /\ credited[a] <= 1
            /\ credited[a] > 0 => request[a].pc \in {"replied", "done"}
  BY DEF HttpInv, AnswersFit
<1> DEFINE t == request[r].state
           LastFits(s) ==
             states'[s].last # NoRequest =>
                 /\ request'[states'[s].last].state = s /\ credited'[states'[s].last] = 0
                 /\ request'[states'[s].last].pc \in {"replied", "done"}
           CreditFits(a) ==
             /\ credited'[a] <= 1
             /\ credited'[a] > 0 => request'[a].pc \in {"replied", "done"}
<1>6. SUFFICES \A s \in Requests : LastFits(s) /\ CreditFits(s)
  BY DEF AnswersFit
<1>7. CASE /\ credited' = credited
           /\ \A q \in Requests : states'[q].last = states[q].last
  BY <1>1, <1>3, <1>4, <1>5, <1>7
<1>8. CASE /\ credited' = credited /\ t \in Requests
           /\ request[r].pc = "asking" /\ request'[r].pc = "replied"
           /\ states'[t].last \in {r, NoRequest}
  <2>1. credited[r] = 0
    BY <1>4, <1>5, <1>8
  <2>2. LastFits(t)
    BY <1>1, <1>8, <2>1
  <2>3. \A s \in Requests \ {t} : LastFits(s)
    BY <1>1, <1>2, <1>3, <1>4, <1>5, <1>8
  <2>4. \A a \in Requests : CreditFits(a)
    BY <1>3, <1>5, <1>8
  <2>5. QED
    BY <2>2, <2>3, <2>4
<1>9. CASE /\ t \in Requests /\ states[t].last \in Requests
           /\ states'[t].last = NoRequest
           /\ credited' = [credited EXCEPT ![states[t].last] = @ + 1]
  <2>1. PICK a \in Requests : a = states[t].last
    BY <1>9
  <2>2. request[a].state = t /\ credited[a] = 0 /\ request[a].pc \in {"replied", "done"}
    BY <1>4, <1>5, <1>9, <2>1
  <2>3. /\ credited'[a] = 1 /\ \A b \in Requests \ {a} : credited'[b] = credited[b]
    BY <1>4, <1>9, <2>1, <2>2
  <2>4. LastFits(t)
    BY <1>9
  <2>5. ASSUME NEW s \in Requests \ {t}, states'[s].last # NoRequest
        PROVE  LastFits(s)
    <3>1. states'[s].last = states[s].last /\ states[s].last \in Requests
      BY <1>2, <1>4, <2>5
    <3>2. request[states[s].last].state = s
      BY <1>5, <2>5, <3>1
    <3>3. states[s].last # a
      BY <2>2, <3>2
    <3>4. QED
      BY <1>1, <1>3, <1>5, <2>3, <2>5, <3>1, <3>3
  <2>6. \A b \in Requests : CreditFits(b)
    BY <1>3, <1>5, <2>2, <2>3
  <2>7. QED
    BY <2>4, <2>5, <2>6
<1>10. QED
  BY <1>7, <1>8, <1>9, PlainCredits

\* The requests are finitely many.
LEMMA RequestsFinite ==
    /\ IsFiniteSet(Requests) /\ Cardinality(Requests) = MaxRequests
    /\ MaxRequests \in Nat
<1>1. MaxRequests \in Nat /\ 1 \in Int /\ MaxRequests \in Int /\ MaxRequests >= 1
  BY HttpAssumption
<1>2. IsFiniteSet(1..MaxRequests) /\ Cardinality(1..MaxRequests) = MaxRequests - 1 + 1
  BY <1>1, FS_Interval
<1>3. QED
  BY <1>1, <1>2 DEF Requests

\* The requests whose count was written become more.
LEMMA ChargedGrow ==
    ASSUME HttpInv, NEW r \in Requests,
           \A q \in Requests \ {r} : request'[q] = request[q],
           \/ /\ request'[r].count = request[r].count
              /\ request[r].pc # "counted"
              /\ request'[r].pc = "counted" => request[r].count = 0
           \/ request[r].count = 0 \/ request[r].pc = "counted"
    PROVE  /\ Charged \subseteq Charged'
           /\ IsFiniteSet(Charged) /\ IsFiniteSet(Charged')
           /\ Cardinality(Charged) \in Nat /\ Cardinality(Charged') \in Nat
           /\ Cardinality(Charged) <= Cardinality(Charged')
           /\ \A q \in Requests :
                 /\ IsFiniteSet(Charged \ {q}) /\ IsFiniteSet(Charged' \ {q})
                 /\ Cardinality(Charged \ {q}) \in Nat
                 /\ Cardinality(Charged' \ {q}) \in Nat
                 /\ Cardinality(Charged \ {q}) <= Cardinality(Charged' \ {q})
<1>1. IsFiniteSet(Requests)
  BY RequestsFinite
<1>2. Charged \subseteq Charged'
  <2>1. ASSUME NEW q \in Charged
        PROVE  q \in Charged'
    <3>1. CASE q # r
      BY <2>1, <3>1 DEF Charged
    <3>2. CASE q = r
      BY <2>1, <3>2, RequestFacts DEF Charged
    <3>3. QED
      BY <3>1, <3>2
  <2>2. QED
    BY <2>1
<1>3. IsFiniteSet(Charged) /\ IsFiniteSet(Charged')
  BY <1>1, FS_Subset DEF Charged
<1>4. QED
  <2>1. \A q \in Requests : /\ Charged \ {q} \subseteq Charged' \ {q}
                            /\ Charged \ {q} \subseteq Charged
                            /\ Charged' \ {q} \subseteq Charged'
    BY <1>2
  <2>2. \A q \in Requests : IsFiniteSet(Charged \ {q}) /\ IsFiniteSet(Charged' \ {q})
    BY <1>3, <2>1, FS_Subset
  <2>3. QED
    BY <1>2, <1>3, <2>1, <2>2, FS_Subset, FS_CardinalityType

LEMMA Between ==
    ASSUME NEW a \in Nat, NEW b \in Nat, NEW c \in Nat, a <= b, b <= c
    PROVE  a <= c /\ c >= a
OBVIOUS

LEMMA PlainCounts ==
    ASSUME HttpInv, NEW r \in Requests, PlainStep(r)
    PROVE  CountsFit'
<1>1. /\ \A q \in Requests \ {r} : request'[q] = request[q]
      /\ PlainMoves(r)
  BY PlainRequests DEF PlainRequest
<1>2. /\ rate \in Nat /\ rate <= Cardinality(Charged) /\ RateLimit \in Nat
      /\ \A q \in Requests :
            /\ request[q].count \in Nat
            /\ request[q].pc = "new" => request[q].count = 0
            /\ request[q].pc = "counted" => request[q].count <= Cardinality(Charged)
            /\ request[q].pc = "refused" /\ request[q].count > 0 =>
                  Cardinality(Charged \ {q}) >= RateLimit
  BY RequestFacts, HttpAssumption DEF HttpInv, HttpTypes, CountsFit
<1>3. \/ ReadStep(r) /\ rate' = rate
      \/ WriteStep(r)
      \/ /\ rate' = rate /\ request'[r].count = request[r].count
         /\ request[r].pc # "counted" /\ request'[r].pc # "counted"
         /\ request'[r].pc = "refused" => request[r].count = 0
  <2>1. CASE ReadRate(r)
    BY <2>1, ReadMoves DEF ReadRate
  <2>2. CASE WriteRate(r)
    BY <2>2, WriteMoves
  <2>3. CASE ~ ReadRate(r) /\ ~ WriteRate(r)
    <3>1. CASE RefuseRequest(r)
      <4>1. request[r].pc = "new"
        BY <3>1 DEF RefuseRequest, Arrives, RequestAt
      <4>2. request'[r].pc = "refused"
        BY <3>1, MovesTo DEF RefuseRequest, RequestPhases
      <4>3. QED
        BY <1>2, <2>3, <4>1, <4>2, OtherMoves
    <3>2. CASE ~ RefuseRequest(r)
      <4>1. request[r].pc # "new" /\ request[r].pc # "counted"
        BY <2>3, <3>2
        DEF PlainStep, TakeState, GiveFeedback, AnswerOtherwise, AskModel,
            AnswerArrives, RequestFails, EndResponse, RequestAt
      <4>2. QED
        BY <1>1, <2>3, <4>1, OtherMoves DEF PlainMoves
    <3>3. QED
      BY <3>1, <3>2
  <2>4. QED
    BY <2>1, <2>2, <2>3
<1>4. /\ Charged \subseteq Charged'
      /\ IsFiniteSet(Charged) /\ IsFiniteSet(Charged')
      /\ Cardinality(Charged) \in Nat /\ Cardinality(Charged') \in Nat
      /\ Cardinality(Charged) <= Cardinality(Charged')
      /\ \A q \in Requests :
            /\ IsFiniteSet(Charged \ {q}) /\ IsFiniteSet(Charged' \ {q})
            /\ Cardinality(Charged \ {q}) \in Nat
            /\ Cardinality(Charged' \ {q}) \in Nat
            /\ Cardinality(Charged \ {q}) <= Cardinality(Charged' \ {q})
  <2>1. \/ /\ request'[r].count = request[r].count
           /\ request[r].pc # "counted"
           /\ request'[r].pc = "counted" => request[r].count = 0
        \/ request[r].count = 0 \/ request[r].pc = "counted"
    BY <1>2, <1>3 DEF ReadStep, WriteStep
  <2>2. QED
    BY <1>1, <2>1, ChargedGrow
<1> DEFINE Fits(q) ==
        /\ request'[q].pc = "new" => request'[q].count = 0
        /\ request'[q].pc = "counted" => request'[q].count <= Cardinality(Charged')
        /\ request'[q].pc = "refused" /\ request'[q].count > 0 =>
              Cardinality(Charged' \ {q}) >= RateLimit
<1>5. ASSUME NEW q \in Requests \ {r}
      PROVE  Fits(q)
  <2>1. request'[q].count = request[q].count /\ request'[q].pc = request[q].pc
    BY <1>1
  <2>2. CASE request[q].pc = "new"
    BY <1>2, <2>1, <2>2
  <2>3. CASE request[q].pc = "counted"
    <3>1. request[q].count <= Cardinality(Charged) /\ request[q].count \in Nat
      BY <1>2, <2>3
    <3>2. request[q].count <= Cardinality(Charged')
      BY <1>4, <3>1, Between
    <3>3. QED
      BY <2>1, <2>3, <3>2
  <2>4. CASE request[q].pc = "refused" /\ request[q].count > 0
    <3>1. Cardinality(Charged \ {q}) >= RateLimit
      BY <1>2, <2>4
    <3>2. /\ Cardinality(Charged \ {q}) \in Nat /\ Cardinality(Charged' \ {q}) \in Nat
          /\ Cardinality(Charged \ {q}) <= Cardinality(Charged' \ {q})
      BY <1>4
    <3>3. Cardinality(Charged' \ {q}) >= RateLimit
      BY <1>2, <3>1, <3>2, Between
    <3>4. QED
      BY <2>1, <2>4, <3>3
  <2>5. QED
    BY <2>1, <2>2, <2>3, <2>4
<1>6. CASE ReadStep(r) /\ rate' = rate
  <2>1. Fits(r)
    BY <1>2, <1>4, <1>6 DEF ReadStep
  <2>2. rate' <= Cardinality(Charged')
    BY <1>2, <1>4, <1>6
  <2>3. QED
    BY <1>5, <2>1, <2>2 DEF CountsFit
<1>7. CASE WriteStep(r)
  <2>1. CASE request'[r].pc = "failed" /\ rate' = rate
    BY <1>2, <1>4, <1>5, <2>1 DEF CountsFit
  <2>2. CASE /\ request'[r].count = request[r].count + 1
             /\ rate' = request[r].count + 1
             /\ request'[r].pc \in {"refused", "admitted"}
             /\ request'[r].pc = "refused" => request[r].count >= RateLimit
    <3>1. r \notin Charged /\ request[r].pc = "counted"
      BY <1>7 DEF WriteStep, Charged
    <3>2. r \in Charged'
      <4>1. request[r].count \in Nat
        BY <1>2
      <4>2. request'[r].count > 0 /\ request'[r].pc # "counted"
        BY <2>2, <4>1
      <4>3. QED
        BY <4>2 DEF Charged
    <3>3. /\ Cardinality(Charged' \ {r}) = Cardinality(Charged') - 1
          /\ Charged \ {r} = Charged
      <4>1. IsFiniteSet(Charged')
        BY <1>4
      <4>2. Cardinality(Charged' \ {r}) = Cardinality(Charged') - 1
        BY <4>1, <3>2, FS_RemoveElement
      <4>3. Charged \ {r} = Charged
        BY <3>1
      <4>4. QED
        BY <4>2, <4>3
    <3>4. /\ Cardinality(Charged) <= Cardinality(Charged' \ {r})
          /\ request[r].count <= Cardinality(Charged)
      BY <1>2, <1>4, <3>1, <3>3
    <3>5. rate' <= Cardinality(Charged')
      BY <1>2, <1>4, <2>2, <3>3, <3>4
    <3>6. Fits(r)
      <4>1. CASE request'[r].pc = "admitted"
        BY <4>1
      <4>2. CASE request'[r].pc = "refused"
        <5>1. request[r].count >= RateLimit /\ request[r].count \in Nat
          BY <1>2, <2>2, <4>2
        <5>2. Cardinality(Charged' \ {r}) \in Nat
          BY <1>4
        <5>3. request[r].count <= Cardinality(Charged' \ {r})
          BY <1>4, <3>4, <5>1, <5>2, Between
        <5>4. Cardinality(Charged' \ {r}) >= RateLimit
          BY <1>2, <5>1, <5>2, <5>3, Between
        <5>5. QED
          BY <4>2, <5>4
      <4>3. QED
        BY <2>2, <4>1, <4>2
    <3>7. QED
      BY <1>5, <3>5, <3>6 DEF CountsFit
  <2>3. QED
    BY <1>7, <2>1, <2>2 DEF WriteStep
<1>8. CASE /\ rate' = rate /\ request'[r].count = request[r].count
           /\ request[r].pc # "counted" /\ request'[r].pc # "counted"
           /\ request'[r].pc = "refused" => request[r].count = 0
  <2>1. Fits(r)
    BY <1>1, <1>2, <1>8 DEF PlainMoves
  <2>2. rate' <= Cardinality(Charged')
    BY <1>2, <1>4, <1>8
  <2>3. QED
    BY <1>5, <2>1, <2>2 DEF CountsFit
<1>9. QED
  BY <1>3, <1>6, <1>7, <1>8

\* The table of conversations: what removing an entry and appending one do.
Table == Seq(Conversations \X Requests)
OnePerKey(s) == \A i, j \in DOMAIN s : s[i][1] = s[j][1] => i = j
Has(s, e) == \E i \in DOMAIN s : s[i] = e

LEMMA WithoutPlace ==
    ASSUME NEW S, NEW s \in Seq(S), NEW i \in DOMAIN s
    PROVE  /\ RemoveAt(s, i) \in Seq(S)
           /\ Len(RemoveAt(s, i)) = Len(s) - 1
           /\ \A j \in 1..(Len(s) - 1) :
                 RemoveAt(s, i)[j] = IF j < i THEN s[j] ELSE s[j + 1]
<1> DEFINE a == SubSeq(s, 1, i - 1)
           b == SubSeq(s, i + 1, Len(s))
<1>1. i \in 1..Len(s) /\ Len(s) \in Nat /\ \A j \in 1..Len(s) : s[j] \in S
  OBVIOUS
<1>2. /\ a \in Seq(S) /\ Len(a) = i - 1 /\ \A j \in 1..(i - 1) : a[j] = s[j]
  <2>1. 1 \in Int /\ i - 1 \in Int /\ \A j \in 1..(i - 1) : s[j] \in S
    BY <1>1
  <2>2. /\ a \in Seq(S) /\ Len(a) = IF 1 <= i - 1 THEN (i - 1) - 1 + 1 ELSE 0
        /\ \A j \in 1..((i - 1) - 1 + 1) : a[j] = s[1 + j - 1]
    BY <2>1, SubSeqProperties
  <2>3. QED
    BY <1>1, <2>2
<1>3. /\ b \in Seq(S) /\ Len(b) = Len(s) - i
      /\ \A j \in 1..(Len(s) - i) : b[j] = s[i + j]
  <2>1. i + 1 \in Int /\ Len(s) \in Int /\ \A j \in (i + 1)..Len(s) : s[j] \in S
    BY <1>1
  <2>2. /\ b \in Seq(S)
        /\ Len(b) = IF i + 1 <= Len(s) THEN Len(s) - (i + 1) + 1 ELSE 0
        /\ \A j \in 1..(Len(s) - (i + 1) + 1) : b[j] = s[(i + 1) + j - 1]
    BY <2>1, SubSeqProperties
  <2>3. QED
    BY <1>1, <2>2
<1>4. RemoveAt(s, i) = a \o b
  BY DEF RemoveAt
<1> HIDE DEF a, b
<1>5. /\ a \o b \in Seq(S) /\ Len(a \o b) = Len(a) + Len(b)
      /\ \A j \in 1..(Len(a) + Len(b)) :
            (a \o b)[j] = IF j <= Len(a) THEN a[j] ELSE b[j - Len(a)]
  BY <1>2, <1>3, ConcatProperties
<1>6. Len(a) + Len(b) = Len(s) - 1
  BY <1>1, <1>2, <1>3
<1>7. ASSUME NEW j \in 1..(Len(s) - 1)
      PROVE  (a \o b)[j] = IF j < i THEN s[j] ELSE s[j + 1]
  <2>1. (a \o b)[j] = IF j <= Len(a) THEN a[j] ELSE b[j - Len(a)]
    BY <1>5, <1>6
  <2>2. CASE j < i
    <3>1. j <= Len(a) /\ j \in 1..(i - 1)
      BY <1>1, <1>2, <2>2
    <3>2. QED
      BY <1>2, <2>1, <2>2, <3>1
  <2>3. CASE ~ (j < i)
    <3> DEFINE k == j + 1 - i
    <3>1. /\ i \in Nat /\ j \in Nat /\ Len(s) \in Nat
          /\ i <= j /\ j <= Len(s) - 1 /\ Len(a) = i - 1
      BY <1>1, <1>2, <2>3
    <3>2. ~ (j <= Len(a)) /\ j - Len(a) = k /\ k \in 1..(Len(s) - i) /\ i + k = j + 1
      BY <3>1
    <3> HIDE DEF k
    <3>3. b[k] = s[j + 1]
      BY <1>3, <3>2
    <3>4. QED
      BY <2>1, <2>3, <3>2, <3>3
  <2>4. QED
    BY <2>2, <2>3
<1>8. QED
  BY <1>4, <1>5, <1>6, <1>7

LEMMA RemoveEntry ==
    ASSUME NEW s \in Table, OnePerKey(s), NEW i \in DOMAIN s
    PROVE  /\ RemoveAt(s, i) \in Table /\ OnePerKey(RemoveAt(s, i))
           /\ Len(RemoveAt(s, i)) = Len(s) - 1
           /\ \A j \in DOMAIN RemoveAt(s, i) :
                 \E k \in DOMAIN s : k # i /\ RemoveAt(s, i)[j] = s[k]
           /\ \A k \in DOMAIN s : k = i \/ Has(RemoveAt(s, i), s[k])
<1> DEFINE t == RemoveAt(s, i)
<1>1. /\ t \in Table /\ Len(t) = Len(s) - 1
      /\ \A j \in 1..(Len(s) - 1) : t[j] = IF j < i THEN s[j] ELSE s[j + 1]
  BY WithoutPlace DEF Table
<1>2. /\ Len(s) \in Nat /\ DOMAIN s = 1..Len(s) /\ i \in 1..Len(s)
      /\ DOMAIN t = 1..(Len(s) - 1)
  BY <1>1 DEF Table
<1> HIDE DEF t
<1>3. OnePerKey(t)
  <2> SUFFICES ASSUME NEW j \in DOMAIN t, NEW k \in DOMAIN t, t[j][1] = t[k][1]
               PROVE  j = k
    BY DEF OnePerKey
  <2> DEFINE at(m) == IF m < i THEN m ELSE m + 1
  <2>1. /\ at(j) \in DOMAIN s /\ at(k) \in DOMAIN s
        /\ t[j] = s[at(j)] /\ t[k] = s[at(k)]
    BY <1>1, <1>2
  <2>2. at(j) = at(k)
    BY <2>1 DEF OnePerKey
  <2>3. QED
    BY <1>2, <2>2
<1>4. ASSUME NEW j \in DOMAIN t
      PROVE  \E k \in DOMAIN s : k # i /\ t[j] = s[k]
  <2>1. CASE j < i
    BY <1>1, <1>2, <2>1
  <2>2. CASE ~ (j < i)
    <3>1. j + 1 \in DOMAIN s /\ j + 1 # i /\ t[j] = s[j + 1]
      BY <1>1, <1>2, <2>2
    <3>2. QED
      BY <3>1
  <2>3. QED
    BY <2>1, <2>2
<1>5. ASSUME NEW k \in DOMAIN s, k # i
      PROVE  Has(t, s[k])
  <2>1. CASE k < i
    <3>1. k \in DOMAIN t /\ t[k] = s[k]
      BY <1>1, <1>2, <2>1
    <3>2. QED
      BY <3>1 DEF Has
  <2>2. CASE ~ (k < i)
    <3>1. k - 1 \in DOMAIN t /\ t[k - 1] = s[k]
      BY <1>1, <1>2, <1>5, <2>2
    <3>2. QED
      BY <3>1 DEF Has
  <2>3. QED
    BY <2>1, <2>2
<1>6. QED
  BY <1>1, <1>3, <1>4, <1>5 DEF t

LEMMA AppendEntry ==
    ASSUME NEW s \in Table, OnePerKey(s), NEW e \in Conversations \X Requests,
           \A i \in DOMAIN s : s[i][1] # e[1]
    PROVE  /\ Append(s, e) \in Table /\ OnePerKey(Append(s, e))
           /\ Len(Append(s, e)) = Len(s) + 1
           /\ \A j \in DOMAIN Append(s, e) : Append(s, e)[j] = e \/ Has(s, Append(s, e)[j])
           /\ Has(Append(s, e), e)
           /\ \A i \in DOMAIN s : Has(Append(s, e), s[i])
<1> DEFINE t == Append(s, e)
<1>1. /\ t \in Table /\ Len(s) \in Nat /\ Len(t) = Len(s) + 1
      /\ DOMAIN s = 1..Len(s) /\ DOMAIN t = 1..(Len(s) + 1)
      /\ \A j \in 1..Len(s) : t[j] = s[j]
      /\ t[Len(s) + 1] = e
  BY DEF Table
<1> HIDE DEF t
<1>2. \A j \in DOMAIN t : j \in DOMAIN s \/ j = Len(s) + 1
  BY <1>1
<1>3. OnePerKey(t)
  BY <1>1, <1>2 DEF OnePerKey
<1>4. \A j \in DOMAIN t : t[j] = e \/ Has(s, t[j])
  BY <1>1, <1>2 DEF Has
<1>5. Len(s) + 1 \in DOMAIN t /\ \A i \in DOMAIN s : i \in DOMAIN t
  BY <1>1
<1>6. Has(t, e) /\ \A i \in DOMAIN s : Has(t, s[i])
  BY <1>1, <1>5 DEF Has
<1>7. QED
  BY <1>1, <1>3, <1>4, <1>6 DEF t

LEMMA TableNow ==
    ASSUME HttpInv
    PROVE  /\ retained \in Table /\ OnePerKey(retained)
           /\ Len(retained) \in Nat /\ Len(retained) <= StateLimit /\ StateLimit \in Nat \ {0}
           /\ \A i \in DOMAIN retained :
                 /\ retained[i] \in Conversations \X Requests
                 /\ StateOf(retained[i]) \in Requests
                 /\ retained[i] = <<retained[i][1], StateOf(retained[i])>>
BY HttpAssumption DEF HttpInv, HttpTypes, TableFits, Table, OnePerKey, StateOf

\* Pruning drops nothing but a state that nobody holds.
LEMMA PrunedTable ==
    ASSUME HttpInv
    PROVE  /\ Pruned \in Table /\ OnePerKey(Pruned)
           /\ Len(Pruned) \in Nat /\ Len(Pruned) <= StateLimit
           /\ \A j \in DOMAIN Pruned : Has(retained, Pruned[j])
           /\ \A i \in DOMAIN retained : Has(Pruned, retained[i]) \/ Idle(retained[i])
<1>1. CASE \E i \in DOMAIN retained : OldestIdle(i)
  <2> DEFINE i == CHOOSE k \in DOMAIN retained : OldestIdle(k)
  <2>1. i \in DOMAIN retained /\ Idle(retained[i])
    BY <1>1 DEF OldestIdle
  <2>2. Pruned = RemoveAt(retained, i)
    BY <1>1 DEF Pruned
  <2> HIDE DEF i
  <2>3. /\ Pruned \in Table /\ OnePerKey(Pruned)
        /\ Len(Pruned) = Len(retained) - 1
        /\ \A j \in DOMAIN Pruned :
              \E k \in DOMAIN retained : k # i /\ Pruned[j] = retained[k]
        /\ \A k \in DOMAIN retained : k = i \/ Has(Pruned, retained[k])
    BY <2>1, <2>2, TableNow, RemoveEntry
  <2>4. Len(Pruned) \in Nat
    BY <2>3 DEF Table
  <2>5. QED
    BY <2>1, <2>3, <2>4, TableNow DEF Has
<1>2. CASE ~ \E i \in DOMAIN retained : OldestIdle(i)
  BY <1>2, TableNow DEF Pruned, Has
<1>3. QED
  BY <1>1, <1>2

LEMMA PlaceFacts ==
    ASSUME HttpInv, NEW c, Known(c)
    PROVE  /\ PlaceOf(c) \in DOMAIN retained
           /\ StateOf(retained[PlaceOf(c)]) \in Requests
           /\ retained[PlaceOf(c)] = <<c, StateOf(retained[PlaceOf(c)])>>
           /\ c \in Conversations
<1>1. PlaceOf(c) \in DOMAIN retained /\ retained[PlaceOf(c)][1] = c
  BY DEF Known, PlaceOf
<1>2. QED
  BY <1>1, TableNow

\* What looking for the state of a conversation makes of the table: it moves
\* the state to the end, or it appends the new one, dropping an idle one if it
\* has to.
LEMMA TableMoves ==
    ASSUME HttpInv, NEW r \in Requests, NEW c \in Conversations
    PROVE  LET t == TableWith(r, c)
               s == IF Known(c) THEN StateOf(retained[PlaceOf(c)]) ELSE r
           IN  /\ t \in Table /\ OnePerKey(t) /\ Len(t) <= StateLimit
               /\ \A j \in DOMAIN t : t[j] = <<c, s>> \/ Has(retained, t[j])
               /\ \A i \in DOMAIN retained :
                     \/ Has(t, retained[i])
                     \/ Idle(retained[i]) /\ ~ Known(c) /\ Full
               /\ Known(c) \/ ~ Full => Has(t, <<c, s>>)
<1> DEFINE t == TableWith(r, c)
           p == PlaceOf(c)
           kept == IF Full THEN Pruned ELSE retained
<1>1. CASE Known(c)
  <2> DEFINE u == RemoveAt(retained, p)
             e == retained[p]
  <2>1. /\ p \in DOMAIN retained /\ e = <<c, StateOf(e)>> /\ e[1] = c
        /\ e \in Conversations \X Requests
    BY <1>1, PlaceFacts, TableNow
  <2>2. t = Append(u, e)
    BY <1>1 DEF TableWith
  <2> HIDE DEF t, p, e
  <2>3. /\ u \in Table /\ OnePerKey(u) /\ Len(u) = Len(retained) - 1
        /\ \A j \in DOMAIN u : \E k \in DOMAIN retained : k # p /\ u[j] = retained[k]
        /\ \A k \in DOMAIN retained : k = p \/ Has(u, retained[k])
    BY <2>1, TableNow, RemoveEntry
  <2> HIDE DEF u
  <2>4. \A j \in DOMAIN u : u[j][1] # e[1]
    BY <2>1, <2>3, TableNow DEF OnePerKey, e
  <2>5. /\ t \in Table /\ OnePerKey(t) /\ Len(t) = Len(u) + 1
        /\ \A j \in DOMAIN t : t[j] = e \/ Has(u, t[j])
        /\ Has(t, e) /\ \A j \in DOMAIN u : Has(t, u[j])
    BY <2>1, <2>2, <2>3, <2>4, AppendEntry
  <2>6. Len(t) <= StateLimit
    BY <2>3, <2>5, TableNow
  <2>7. \A j \in DOMAIN t : t[j] = e \/ Has(retained, t[j])
    BY <2>3, <2>5 DEF Has
  <2>8. \A i \in DOMAIN retained : Has(t, retained[i])
    BY <2>3, <2>5 DEF Has, e
  <2>9. QED
    BY <1>1, <2>1, <2>5, <2>6, <2>7, <2>8 DEF t, p, e
<1>2. CASE ~ Known(c)
  <2>1. /\ kept \in Table /\ OnePerKey(kept) /\ Len(kept) \in Nat
        /\ Len(kept) <= StateLimit
        /\ \A j \in DOMAIN kept : Has(retained, kept[j])
        /\ \A i \in DOMAIN retained :
              Has(kept, retained[i]) \/ (Idle(retained[i]) /\ Full)
        /\ ~ Full => Len(kept) < StateLimit
    <3>1. CASE Full
      BY <3>1, PrunedTable
    <3>2. CASE ~ Full
      BY <3>2, TableNow DEF Full, Has
    <3>3. QED
      BY <3>1, <3>2
  <2>2. t = IF Len(kept) >= StateLimit THEN kept ELSE Append(kept, <<c, r>>)
    BY <1>2 DEF TableWith
  <2> HIDE DEF t, kept
  <2>3. CASE Len(kept) >= StateLimit
    <3>1. t = kept /\ Full
      BY <2>1, <2>2, <2>3, TableNow
    <3>2. QED
      BY <1>2, <2>1, <3>1 DEF t
  <2>4. CASE ~ (Len(kept) >= StateLimit)
    <3> DEFINE e == <<c, r>>
    <3>1. t = Append(kept, e) /\ e \in Conversations \X Requests
      BY <2>2, <2>4
    <3>2. \A j \in DOMAIN kept : kept[j][1] # e[1]
      BY <1>2, <2>1 DEF Known, Has
    <3> HIDE DEF e
    <3>3. /\ t \in Table /\ OnePerKey(t) /\ Len(t) = Len(kept) + 1
          /\ \A j \in DOMAIN t : t[j] = e \/ Has(kept, t[j])
          /\ Has(t, e) /\ \A j \in DOMAIN kept : Has(t, kept[j])
      BY <2>1, <3>1, <3>2, AppendEntry
    <3>4. Len(t) <= StateLimit
      BY <2>1, <2>4, <3>3, TableNow
    <3>5. \A j \in DOMAIN t : t[j] = e \/ Has(retained, t[j])
      BY <2>1, <3>3 DEF Has
    <3>6. \A i \in DOMAIN retained :
              Has(t, retained[i]) \/ (Idle(retained[i]) /\ Full)
      BY <2>1, <3>3 DEF Has
    <3>7. QED
      BY <1>2, <3>3, <3>4, <3>5, <3>6 DEF t, e
  <2>5. QED
    BY <2>3, <2>4
<1>3. QED
  BY <1>1, <1>2

\* The state a request finds: that of its conversation, or one of its own.
FoundBy(r, c) == IF Known(c) THEN StateOf(retained[PlaceOf(c)]) ELSE r

LEMMA FindMoves ==
    ASSUME HttpInv, NEW r \in Requests, NEW c \in Conversations \cup {NoConversation},
           FindState(r, c)
    PROVE  /\ request[r].pc = "admitted" /\ request[r].state = NoRequest
           /\ FoundBy(r, c) \in Requests
           /\ request' \in [Requests -> Request]
           /\ \A q \in Requests \ {r} : request'[q] = request[q]
           /\ request'[r].pc = "waiting" /\ request'[r].conversation = c
           /\ request'[r].state = FoundBy(r, c) /\ request'[r].count = request[r].count
           /\ states' = states /\ rate' = rate /\ credited' = credited
           /\ NoRequest \notin Requests
<1>1. request[r].pc = "admitted" /\ request[r].state = NoRequest
  BY DEF FindState, RequestAt, HttpInv, StatesFit, Unplaced
<1>2. FoundBy(r, c) \in Requests
  BY PlaceFacts DEF FoundBy
<1>3. request' = [request EXCEPT
           ![r].pc = "waiting", ![r].conversation = c, ![r].state = FoundBy(r, c)]
  BY DEF FindState, FoundBy
<1>4. request \in [Requests -> Request] /\ "waiting" \in RequestPhases
  BY DEF HttpInv, HttpTypes, RequestPhases
<1>5. /\ request' \in [Requests -> Request]
      /\ \A q \in Requests \ {r} : request'[q] = request[q]
      /\ request'[r].pc = "waiting" /\ request'[r].conversation = c
      /\ request'[r].state = FoundBy(r, c) /\ request'[r].count = request[r].count
  BY <1>2, <1>3, <1>4 DEF Request
<1>6. states' = states /\ rate' = rate /\ credited' = credited
  BY DEF FindState
<1>7. QED
  BY <1>1, <1>2, <1>5, <1>6 DEF Requests, NoRequest

\* Nobody is at the state that a request is about to make; one it finds in the
\* table is its conversation's.
LEMMA FoundFits ==
    ASSUME HttpInv, NEW r \in Requests, NEW c \in Conversations \cup {NoConversation},
           FindState(r, c)
    PROVE  /\ \A q \in Requests : request[q].state # r
           /\ Known(c) => /\ request[FoundBy(r, c)].state = FoundBy(r, c)
                          /\ request[FoundBy(r, c)].conversation = c
                          /\ FoundBy(r, c) # r
           /\ ~ Known(c) => FoundBy(r, c) = r
<1>1. request[r].state = NoRequest /\ NoRequest \notin Requests
  BY FindMoves
<1>2. \A q \in Requests : request[q].state # r
  BY <1>1 DEF HttpInv, StatesFit
<1>3. ASSUME Known(c)
      PROVE  /\ request[FoundBy(r, c)].state = FoundBy(r, c)
             /\ request[FoundBy(r, c)].conversation = c
  <2> DEFINE e == retained[PlaceOf(c)]
  <2>1. /\ PlaceOf(c) \in DOMAIN retained /\ FoundBy(r, c) = StateOf(e)
        /\ e[1] = c
    BY <1>3, PlaceFacts DEF FoundBy
  <2>2. request[StateOf(e)].state = StateOf(e) /\ request[StateOf(e)].conversation = e[1]
    BY <2>1 DEF HttpInv, TableFits
  <2>3. QED
    BY <2>1, <2>2
<1>4. QED
  BY <1>1, <1>2, <1>3, FindMoves DEF FoundBy

\* What the step does to the table.
LEMMA FindTable ==
    ASSUME HttpInv, NEW r \in Requests, NEW c \in Conversations \cup {NoConversation},
           FindState(r, c)
    PROVE  /\ retained' \in Table /\ OnePerKey(retained') /\ Len(retained') <= StateLimit
           /\ pressed' \in BOOLEAN
           /\ pressed => pressed'
           /\ \A j \in DOMAIN retained' :
                 \/ c \in Conversations /\ retained'[j] = <<c, FoundBy(r, c)>>
                 \/ Has(retained, retained'[j])
           /\ \A i \in DOMAIN retained :
                 \/ Has(retained', retained[i])
                 \/ Idle(retained[i]) /\ pressed'
           /\ c \in Conversations /\ ~ pressed' => Has(retained', <<c, FoundBy(r, c)>>)
<1>1. /\ pressed' = (pressed \/ (c # NoConversation /\ ~ Known(c) /\ Full))
      /\ pressed \in BOOLEAN /\ NoConversation \notin Conversations
  BY HttpAssumption DEF FindState, HttpInv, HttpTypes
<1>2. CASE c = NoConversation
  <2>1. retained' = retained /\ c \notin Conversations
    BY <1>1, <1>2 DEF FindState
  <2>2. QED
    BY <1>1, <2>1, TableNow DEF Has
<1>3. CASE c # NoConversation
  <2>1. c \in Conversations /\ retained' = TableWith(r, c)
    BY <1>3 DEF FindState
  <2>2. QED
    BY <1>1, <1>3, <2>1, TableMoves DEF FoundBy
<1>4. QED
  BY <1>2, <1>3

LEMMA FindTypes ==
    ASSUME HttpInv, NEW r \in Requests, NEW c \in Conversations \cup {NoConversation},
           FindState(r, c)
    PROVE  HttpTypes'
BY FindMoves, FindTable DEF HttpInv, HttpTypes, Table

LEMMA FindStatesFit ==
    ASSUME HttpInv, NEW r \in Requests, NEW c \in Conversations \cup {NoConversation},
           FindState(r, c)
    PROVE  StatesFit'
<1> DEFINE f == FoundBy(r, c)
<1>1. /\ \A q \in Requests \ {r} : request'[q] = request[q]
      /\ request'[r].pc = "waiting" /\ request'[r].conversation = c
      /\ request'[r].state = f /\ f \in Requests /\ NoRequest \notin Requests
  BY FindMoves
<1>2. /\ \A q \in Requests : request[q].state # r
      /\ Known(c) => request[f].state = f /\ request[f].conversation = c /\ f # r
      /\ ~ Known(c) => f = r
  BY FoundFits
<1> HIDE DEF f
<1>3. ASSUME NEW q \in Requests
      PROVE  /\ request'[q].pc \in Unplaced => request'[q].state = NoRequest
             /\ request'[q].pc \in {"waiting", "done"} \cup Locking =>
                   request'[q].state # NoRequest
  <2>1. CASE q = r
    BY <1>1, <2>1 DEF Unplaced
  <2>2. CASE q # r
    BY <1>1, <2>2 DEF HttpInv, StatesFit
  <2>3. QED
    BY <2>1, <2>2
<1>4. ASSUME NEW q \in Requests, request'[q].state # NoRequest
      PROVE  /\ request'[request'[q].state].state = request'[q].state
             /\ request'[request'[q].state].conversation = request'[q].conversation
  <2>1. CASE q = r /\ Known(c)
    BY <1>1, <1>2, <2>1
  <2>2. CASE q = r /\ ~ Known(c)
    BY <1>1, <1>2, <2>2
  <2>3. CASE q # r
    <3>1. /\ request[q].state \in Requests \ {r} /\ request'[q] = request[q]
      BY <1>1, <1>2, <1>4, <2>3, RequestFacts
    <3>2. /\ request[request[q].state].state = request[q].state
          /\ request[request[q].state].conversation = request[q].conversation
      BY <1>4, <3>1 DEF HttpInv, StatesFit, SameConversation
    <3>3. QED
      BY <1>1, <3>1, <3>2
  <2>4. QED
    BY <2>1, <2>2, <2>3
<1>5. QED
  BY <1>3, <1>4 DEF StatesFit, SameConversation

LEMMA FindLocks ==
    ASSUME HttpInv, NEW r \in Requests, NEW c \in Conversations \cup {NoConversation},
           FindState(r, c)
    PROVE  LocksFit'
<1>1. /\ \A q \in Requests \ {r} : request'[q] = request[q]
      /\ request[r].pc = "admitted" /\ request'[r].pc = "waiting" /\ states' = states
  BY FindMoves
<1>2. /\ ~ Holds(r) /\ ~ Holds(r)'
      /\ \A q \in Requests \ {r} : Holds(q)' <=> Holds(q)
  BY <1>1 DEF Holds, Locking
<1>3. \A q \in Requests : Holds(q)' => states'[request'[q].state].holder = q
  BY <1>1, <1>2 DEF HttpInv, LocksFit
<1>4. \A s, h \in Requests :
          states'[s].holder = h => Holds(h)' /\ request'[h].state = s
  BY <1>1, <1>2 DEF HttpInv, LocksFit
<1>5. QED
  BY <1>3, <1>4 DEF LocksFit

LEMMA FindTables ==
    ASSUME HttpInv, NEW r \in Requests, NEW c \in Conversations \cup {NoConversation},
           FindState(r, c)
    PROVE  TableFits' /\ AllRetained'
<1> DEFINE f == FoundBy(r, c)
<1>1. /\ \A q \in Requests \ {r} : request'[q] = request[q]
      /\ request'[r].state = f /\ request'[r].conversation = c /\ f \in Requests
      /\ request[r].state = NoRequest /\ NoRequest \notin Requests
  BY FindMoves
<1>2. /\ Known(c) => request[f].state = f /\ request[f].conversation = c /\ f # r
      /\ ~ Known(c) => f = r
  BY FoundFits
<1>3. /\ retained' \in Table /\ OnePerKey(retained') /\ Len(retained') <= StateLimit
      /\ \A j \in DOMAIN retained' :
            \/ c \in Conversations /\ retained'[j] = <<c, f>>
            \/ Has(retained, retained'[j])
      /\ \A i \in DOMAIN retained :
            Has(retained', retained[i]) \/ (Idle(retained[i]) /\ pressed')
      /\ c \in Conversations /\ ~ pressed' => Has(retained', <<c, f>>)
      /\ pressed => pressed'
  BY FindTable
<1> HIDE DEF f
<1>4. request'[f].state = f /\ request'[f].conversation = c
  <2>1. CASE Known(c)
    BY <1>1, <1>2, <2>1
  <2>2. CASE ~ Known(c)
    BY <1>1, <1>2, <2>2
  <2>3. QED
    BY <2>1, <2>2
<1>5. ASSUME NEW j \in DOMAIN retained'
      PROVE  /\ request'[retained'[j][2]].state = retained'[j][2]
             /\ request'[retained'[j][2]].conversation = retained'[j][1]
  <2>1. CASE retained'[j] = <<c, f>>
    BY <1>4, <2>1
  <2>2. CASE Has(retained, retained'[j])
    <3>1. PICK i \in DOMAIN retained : retained[i] = retained'[j]
      BY <2>2 DEF Has
    <3>2. /\ request[retained[i][2]].state = retained[i][2]
          /\ request[retained[i][2]].conversation = retained[i][1]
          /\ retained[i][2] \in Requests
      BY TableNow DEF HttpInv, TableFits, StateOf
    <3>3. retained[i][2] # r
      BY <1>1, <3>2
    <3>4. QED
      BY <1>1, <3>1, <3>2, <3>3
  <2>3. QED
    BY <1>3, <2>1, <2>2
<1>6. TableFits'
  BY <1>3, <1>5 DEF TableFits, OnePerKey, StateOf
<1>7. ASSUME ~ pressed', NEW q \in Requests, request'[q].state # NoRequest,
             request'[q].conversation # NoConversation
      PROVE  Has(retained', <<request'[q].conversation, request'[q].state>>)
  <2>1. CASE q = r
    BY <1>1, <1>3, <1>7, <2>1
  <2>2. CASE q # r
    <3>1. \E i \in DOMAIN retained :
              retained[i] = <<request[q].conversation, request[q].state>>
      BY <1>1, <1>3, <1>7, <2>2 DEF HttpInv, AllRetained
    <3>2. QED
      BY <1>1, <1>3, <1>7, <2>2, <3>1
  <2>3. QED
    BY <2>1, <2>2
<1>8. AllRetained'
  BY <1>7 DEF AllRetained, Has
<1>9. QED
  BY <1>6, <1>8

LEMMA FindAnswers ==
    ASSUME HttpInv, NEW r \in Requests, NEW c \in Conversations \cup {NoConversation},
           FindState(r, c)
    PROVE  AnswersFit'
<1>1. /\ \A q \in Requests \ {r} : request'[q] = request[q]
      /\ request[r].pc = "admitted" /\ states' = states /\ credited' = credited
      /\ credited \in [Requests -> Nat]
  BY FindMoves DEF HttpInv, HttpTypes
<1>2. ASSUME NEW s \in Requests, states[s].last # NoRequest
      PROVE  /\ states[s].last \in Requests \ {r}
             /\ request[states[s].last].state = s /\ credited[states[s].last] = 0
             /\ request[states[s].last].pc \in {"replied", "done"}
  BY <1>1, <1>2, StateFacts DEF HttpInv, AnswersFit
<1>3. \A a \in Requests : /\ credited[a] <= 1
                          /\ credited[a] > 0 => request[a].pc \in {"replied", "done"}
  BY DEF HttpInv, AnswersFit
<1>4. \A a \in Requests : credited[a] > 0 => a # r
  BY <1>1, <1>3
<1>5. QED
  BY <1>1, <1>2, <1>3, <1>4 DEF AnswersFit

LEMMA FindCounts ==
    ASSUME HttpInv, NEW r \in Requests, NEW c \in Conversations \cup {NoConversation},
           FindState(r, c)
    PROVE  CountsFit'
<1>1. /\ \A q \in Requests \ {r} : request'[q] = request[q]
      /\ request[r].pc = "admitted" /\ request'[r].pc = "waiting"
      /\ request'[r].count = request[r].count /\ rate' = rate
  BY FindMoves
<1>2. Charged' = Charged
  BY <1>1 DEF Charged
<1>3. \A q \in Requests : /\ request'[q].count = request[q].count
                          /\ request'[q].pc \in {"new", "counted", "refused"} =>
                                request'[q].pc = request[q].pc
  BY <1>1
<1>4. QED
  BY <1>1, <1>2, <1>3 DEF HttpInv, CountsFit

-----------------------------------------------------------------------------
LEMMA HttpStarts == HttpInit => HttpInv
<1> SUFFICES ASSUME HttpInit
             PROVE  HttpInv
  OBVIOUS
<1>1. HttpTypes
  <2>1. /\ [pc |-> "new", conversation |-> NoConversation, count |-> 0,
            state |-> NoRequest] \in Request
        /\ Fresh \in ConversationState
    BY DEF Request, ConversationState, Fresh, RequestPhases
  <2>2. request \in [Requests -> Request] /\ states \in [Requests -> ConversationState]
    BY <2>1 DEF HttpInit
  <2>3. /\ credited \in [Requests -> Nat] /\ rate \in Nat
        /\ retained \in Seq(Conversations \X Requests)
    BY DEF HttpInit
  <2>4. QED
    BY <2>2, <2>3 DEF HttpTypes, HttpInit
<1>2. /\ \A r \in Requests : /\ request[r].pc = "new" /\ request[r].state = NoRequest
                              /\ request[r].count = 0
      /\ \A s \in Requests : states[s].holder = NoRequest /\ states[s].last = NoRequest
      /\ \A a \in Requests : credited[a] = 0
      /\ retained = <<>> /\ rate = 0 /\ NoRequest \notin Requests
      /\ StateLimit \in Nat \ {0}
  BY HttpAssumption DEF HttpInit, Fresh, Requests, NoRequest
<1>3. StatesFit
  BY <1>2 DEF StatesFit, Unplaced, Locking
<1>4. LocksFit
  BY <1>2 DEF LocksFit, Holds, Locking
<1>5. TableFits /\ AllRetained
  BY <1>2 DEF TableFits, AllRetained
<1>6. AnswersFit
  BY <1>2 DEF AnswersFit
<1>7. CountsFit
  <2>1. IsFiniteSet(Requests)
    BY RequestsFinite
  <2>2. Cardinality(Charged) \in Nat
    BY <2>1, FS_Subset, FS_CardinalityType DEF Charged
  <2>3. QED
    BY <1>2, <2>2 DEF CountsFit
<1>8. QED
  BY <1>1, <1>3, <1>4, <1>5, <1>6, <1>7 DEF HttpInv

LEMMA HttpSteps == HttpInv /\ [HttpNext]_httpVars => HttpInv'
<1> SUFFICES ASSUME HttpInv, [HttpNext]_httpVars
             PROVE  HttpInv'
  OBVIOUS
<1>1. ASSUME NEW r \in Requests, PlainStep(r)
      PROVE  HttpInv'
  BY <1>1, PlainTypes, PlainStatesFit, PlainLocks, PlainTables, PlainAnswers, PlainCounts
  DEF HttpInv
<1>2. ASSUME NEW r \in Requests, NEW c \in Conversations \cup {NoConversation},
             FindState(r, c)
      PROVE  HttpInv'
  BY <1>2, FindTypes, FindStatesFit, FindLocks, FindTables, FindAnswers, FindCounts
  DEF HttpInv
<1>3. CASE UNCHANGED httpVars
  <2>1. UNCHANGED <<request, retained, states, rate, credited, pressed>>
    BY <1>3 DEF httpVars
  <2>2. HttpTypes' /\ StatesFit' /\ LocksFit'
    BY <2>1 DEF HttpInv, HttpTypes, StatesFit, SameConversation, LocksFit, Holds
  <2>3. TableFits' /\ AllRetained' /\ AnswersFit'
    BY <2>1 DEF HttpInv, TableFits, StateOf, AllRetained, AnswersFit
  <2>4. CountsFit'
    <3>1. Charged' = Charged
      BY <2>1 DEF Charged
    <3>2. QED
      BY <2>1, <3>1 DEF HttpInv, CountsFit
  <2>5. QED
    BY <2>2, <2>3, <2>4 DEF HttpInv
<1>4. QED
  BY <1>1, <1>2, <1>3 DEF HttpNext, PlainStep

\* The counter stays within the requests there are.
LEMMA HttpInvTyped == HttpInv => HttpTypeOK
<1> SUFFICES ASSUME HttpInv
             PROVE  HttpTypeOK
  OBVIOUS
<1>1. /\ IsFiniteSet(Requests) /\ Cardinality(Requests) = MaxRequests
      /\ MaxRequests \in Nat
  BY RequestsFinite
<1>2. Charged \subseteq Requests
  BY DEF Charged
<1>3. Cardinality(Charged) \in Nat /\ Cardinality(Charged) <= MaxRequests
  BY <1>1, <1>2, FS_Subset, FS_CardinalityType
<1>4. rate \in Nat /\ rate <= Cardinality(Charged)
  BY DEF HttpInv, HttpTypes, CountsFit
<1>5. rate \in 0..MaxRequests
  BY <1>1, <1>3, <1>4
<1>6. QED
  BY <1>5 DEF HttpInv, HttpTypes, TableFits, HttpTypeOK

\* Only an idle state is dropped.
LEMMA HeldSteps ==
    ASSUME HttpInv, [HttpNext]_httpVars
    PROVE  \A i \in DOMAIN retained :
              ~ Idle(retained[i]) => \E j \in DOMAIN retained' : retained'[j] = retained[i]
<1>1. ASSUME NEW r \in Requests, NEW c \in Conversations \cup {NoConversation},
             FindState(r, c)
      PROVE  \A i \in DOMAIN retained : ~ Idle(retained[i]) => Has(retained', retained[i])
  BY <1>1, FindTable
<1>2. ASSUME NEW r \in Requests, PlainStep(r)
      PROVE  retained' = retained
  BY <1>2, PlainRequests
<1>3. CASE UNCHANGED httpVars
  BY <1>3 DEF httpVars
<1>4. QED
  BY <1>1, <1>2, <1>3 DEF HttpNext, PlainStep, Has

LEMMA HttpInvSound == HttpInv => OneTurnAtATime /\ FeedbackIsOwn /\ NoEarlyRefusal
<1> SUFFICES ASSUME HttpInv
             PROVE  OneTurnAtATime /\ FeedbackIsOwn /\ NoEarlyRefusal
  OBVIOUS
<1>1. OneTurnAtATime
  <2> SUFFICES ASSUME ~ pressed, NEW r \in Requests, Answering(r),
                      request[r].conversation # NoConversation
               PROVE  /\ \A q \in Requests \ {r} : Answering(q) => ~ SameConversation(r, q)
                      /\ \E i \in DOMAIN retained :
                            retained[i] = <<request[r].conversation, request[r].state>>
    BY DEF OneTurnAtATime
  <2>1. /\ Holds(r) /\ states[request[r].state].holder = r
        /\ request[r].state # NoRequest
    BY DEF Answering, Holds, Locking, HttpInv, LocksFit, StatesFit
  <2>2. PICK i \in DOMAIN retained :
            retained[i] = <<request[r].conversation, request[r].state>>
    BY <2>1 DEF HttpInv, AllRetained
  <2>3. ASSUME NEW q \in Requests \ {r}, Answering(q), SameConversation(r, q)
        PROVE  FALSE
    <3>1. /\ states[request[q].state].holder = q /\ request[q].state # NoRequest
          /\ request[q].conversation = request[r].conversation
      BY <2>3
      DEF Answering, Holds, Locking, HttpInv, LocksFit, StatesFit, SameConversation
    <3>2. PICK j \in DOMAIN retained :
              retained[j] = <<request[q].conversation, request[q].state>>
      BY <3>1 DEF HttpInv, AllRetained
    <3>3. i = j
      BY <2>2, <3>1, <3>2 DEF HttpInv, TableFits
    <3>4. request[q].state = request[r].state
      BY <2>2, <3>2, <3>3
    <3>5. QED
      BY <2>1, <2>3, <3>1, <3>4
  <2>4. QED
    BY <2>2, <2>3
<1>2. FeedbackIsOwn
  <2>1. \A a \in Requests : credited[a] <= 1
    BY DEF HttpInv, AnswersFit
  <2>2. ASSUME NEW s \in Requests, NEW r \in Requests, request[r].state = s,
               states[s].last # NoRequest
        PROVE  credited[states[s].last] = 0 /\ SameConversation(states[s].last, s)
    <3>1. /\ credited[states[s].last] = 0 /\ states[s].last \in Requests
          /\ request[states[s].last].state = s /\ s # NoRequest
      BY <2>2, StateFacts, RequestFacts DEF HttpInv, AnswersFit
    <3>2. SameConversation(s, states[s].last)
      BY <3>1 DEF HttpInv, StatesFit
    <3>3. QED
      BY <3>1, <3>2 DEF SameConversation
  <2>3. ASSUME NEW s \in Requests, NEW r \in Requests, request[r].state = s
        PROVE  SameConversation(r, s)
    <3>1. request[r].state # NoRequest
      BY <2>3, RequestFacts
    <3>2. SameConversation(s, r)
      BY <2>3, <3>1 DEF HttpInv, StatesFit
    <3>3. QED
      BY <3>2 DEF SameConversation
  <2>4. QED
    BY <2>1, <2>2, <2>3 DEF FeedbackIsOwn
<1>3. NoEarlyRefusal
  <2>1. \A r \in Requests :
            {q \in Requests \ {r} : request[q].count > 0 /\ request[q].pc # "counted"}
                = Charged \ {r}
    BY DEF Charged
  <2>2. QED
    BY <2>1 DEF NoEarlyRefusal, HttpInv, CountsFit
<1>4. QED
  BY <1>1, <1>2, <1>3

\* Conversations are answered one turn at a time as long as the table has
\* never been full, feedback is given once and to the conversation's own
\* answer, nobody is refused early, and a state in use is never dropped,
\* however many requests and conversations there are and whatever the limits.
THEOREM ConversationsStaySound == HttpSpec => ConversationsSound
<1>1. HttpSpec => []HttpInv
  BY HttpStarts, HttpSteps, PTL DEF HttpSpec
<1>2. HttpInv => OneTurnAtATime /\ FeedbackIsOwn /\ NoEarlyRefusal
  BY HttpInvSound
<1>3. HttpInv /\ [HttpNext]_httpVars =>
          [\A i \in DOMAIN retained :
              ~ Idle(retained[i]) =>
                  \E j \in DOMAIN retained' : retained'[j] = retained[i]]_httpVars
  BY HeldSteps
<1>4. QED
  BY <1>1, <1>2, <1>3, PTL DEF HttpSpec, ConversationsSound, HeldStateKept

-----------------------------------------------------------------------------
(***************************************************************************)
(* The turns of a session.  Ids grow along the thread, the summary and     *)
(* what is about to be folded; the marker is where the summary ends; and   *)
(* an id is shown by the one that answers with it.                         *)
(***************************************************************************)
Rises(s) == \A i, j \in DOMAIN s : i < j => s[i] < s[j]

TurnTypes ==
    /\ thread \in Seq(Ids) /\ summary \in Seq(Ids) /\ marker \in Ids \cup {0}
    /\ responses \in [Ids -> Responses \cup {NoResponse}]
    /\ rated \subseteq Ids
    /\ shown \in [Ids -> Responses \cup {NoResponse}]
    /\ lock \in Answerers \cup {Nobody} /\ born \in 0..MaxTurns
    /\ answering \in [Answerers -> Turn]
    /\ unmarked \in BOOLEAN

ThreadRises ==
    /\ Rises(thread) /\ \A i \in DOMAIN thread : thread[i] <= born
    /\ marker <= born

\* As long as the marker is kept, what is before it is in the summary; as long as no marker was
\* discarded, it is kept and the summary ends there.
MarkerFits ==
    /\ Kept(marker) =>
          \A k \in ToSet(thread) : k <= marker => k \in ToSet(summary)
    /\ ~ unmarked =>
          /\ Rises(summary) /\ \A i \in DOMAIN summary : summary[i] <= marker
          /\ marker = 0 \/ Kept(marker)

\* One caller at a time looks at the history and folds: what is older than the
\* last turn it folds is folded, or in the summary.
FoldFit(c) ==
    /\ Stands(c, "idle") => answering[c].read = <<>>
    /\ Stands(c, "history") \/ Stands(c, "fold") => lock = c
    /\ Stands(c, "fold") =>
          LET over == answering[c].over
          IN  /\ over # <<>> /\ Rises(over) /\ Last(over) <= born
              /\ \A k \in ToSet(thread) :
                    k <= Last(over) => k \in ToSet(over) \cup ToSet(summary)
              /\ ToSet(answering[c].read) \subseteq answering[c].sent \cup ToSet(over)
              /\ ~ unmarked => /\ Kept(Last(over))
                              /\ \A i \in DOMAIN over : marker < over[i]
    /\ Stands(c, "answer") => ToSet(answering[c].read) \subseteq answering[c].sent

FoldFits == \A c \in Answerers : FoldFit(c)

\* Between its answer and its reply a caller has an id that nobody else has
\* and that was not shown yet.
Shows == {"guard", "gate", "persist", "fail", "reply"}
ShownFit(i) ==
    shown[i] # NoResponse => i <= born /\ (Kept(i) => responses[i] = shown[i])

AnswerOwn(c) ==
    answering[c].pc \in Shows =>
        LET i == answering[c].id
        IN  /\ i \in 1..born /\ shown[i] = NoResponse
            /\ answering[c].footer \/ Stands(c, "guard") =>
                  (Kept(i) => responses[i] = answering[c].answer)
            /\ \A d \in Answerers \ {c} :
                  answering[d].pc \in Shows => answering[d].id # i

AnswersOwn ==
    (\A i \in Ids : ShownFit(i)) /\ (\A c \in Answerers : AnswerOwn(c))

TurnInv == TurnTypes /\ ThreadRises /\ MarkerFits /\ FoldFits /\ AnswersOwn

LEMMA IdsAreNumbers == \A i \in Ids : i \in Nat /\ i \in Int /\ i > 0
BY TurnsOfModelAssumption DEF Ids

LEMMA SubRises ==
    ASSUME NEW s \in Seq(Ids), Rises(s), NEW m \in 0..Len(s), NEW n \in 0..Len(s)
    PROVE  /\ SubSeq(s, m + 1, n) \in Seq(Ids)
           /\ Len(SubSeq(s, m + 1, n)) = IF m < n THEN n - m ELSE 0
           /\ \A i \in DOMAIN SubSeq(s, m + 1, n) :
                 m + i \in DOMAIN s /\ SubSeq(s, m + 1, n)[i] = s[m + i]
           /\ Rises(SubSeq(s, m + 1, n))
           /\ \A j \in (m + 1)..n : s[j] \in ToSet(SubSeq(s, m + 1, n))
<1> DEFINE t == SubSeq(s, m + 1, n)
<1>1. /\ Len(s) \in Nat /\ DOMAIN s = 1..Len(s) /\ m \in Nat /\ n \in Nat
      /\ m <= Len(s) /\ n <= Len(s) /\ \A i \in 1..Len(s) : s[i] \in Ids
  OBVIOUS
<1>2. m + 1 \in Int /\ n \in Int /\ \A i \in (m + 1)..n : s[i] \in Ids
  BY <1>1
<1>3. /\ t \in Seq(Ids)
      /\ Len(t) = IF m + 1 <= n THEN n - (m + 1) + 1 ELSE 0
      /\ \A i \in 1..(n - (m + 1) + 1) : t[i] = s[(m + 1) + i - 1]
  BY <1>2, SubSeqProperties
<1> HIDE DEF t
<1>4. DOMAIN t = 1..Len(t) /\ Len(t) = IF m < n THEN n - m ELSE 0
  BY <1>1, <1>3
<1>5. ASSUME NEW i \in DOMAIN t
      PROVE  m + i \in DOMAIN s /\ t[i] = s[m + i] /\ i \in 1..(n - m)
  <2>1. i \in 1..(n - m) /\ m < n
    BY <1>1, <1>4, <1>5
  <2>2. i \in 1..(n - (m + 1) + 1) /\ (m + 1) + i - 1 = m + i /\ m + i \in 1..Len(s)
    BY <1>1, <2>1
  <2>3. QED
    BY <1>1, <1>3, <2>1, <2>2
<1>6. Rises(t)
  <2> SUFFICES ASSUME NEW i \in DOMAIN t, NEW j \in DOMAIN t, i < j
               PROVE  t[i] < t[j]
    BY DEF Rises
  <2>1. /\ m + i \in DOMAIN s /\ m + j \in DOMAIN s
        /\ t[i] = s[m + i] /\ t[j] = s[m + j]
    BY <1>5
  <2>2. m + i < m + j
    BY <1>1, <1>4
  <2>3. QED
    BY <2>1, <2>2 DEF Rises
<1>7. ASSUME NEW j \in (m + 1)..n
      PROVE  s[j] \in ToSet(t)
  <2>1. j - m \in DOMAIN t /\ m + (j - m) = j
    BY <1>1, <1>4
  <2>2. t[j - m] = s[j]
    BY <1>5, <2>1
  <2>3. QED
    BY <2>1, <2>2 DEF ToSet
<1>8. QED
  BY <1>3, <1>4, <1>5, <1>6, <1>7 DEF t

LEMMA AppendRises ==
    ASSUME NEW s \in Seq(Ids), Rises(s), NEW x \in Ids, \A i \in DOMAIN s : s[i] < x
    PROVE  /\ Append(s, x) \in Seq(Ids) /\ Rises(Append(s, x))
           /\ ToSet(Append(s, x)) = ToSet(s) \cup {x}
<1> DEFINE t == Append(s, x)
<1>1. /\ t \in Seq(Ids) /\ Len(s) \in Nat /\ Len(t) = Len(s) + 1
      /\ DOMAIN s = 1..Len(s) /\ DOMAIN t = 1..(Len(s) + 1)
      /\ \A j \in 1..Len(s) : t[j] = s[j]
      /\ t[Len(s) + 1] = x
  OBVIOUS
<1> HIDE DEF t
<1>2. /\ \A j \in DOMAIN t : j \in DOMAIN s \/ j = Len(s) + 1
      /\ \A j \in DOMAIN s : j \in DOMAIN t /\ j < Len(s) + 1
      /\ Len(s) + 1 \in DOMAIN t
  BY <1>1
<1>3. Rises(t)
  <2> SUFFICES ASSUME NEW i \in DOMAIN t, NEW j \in DOMAIN t, i < j
               PROVE  t[i] < t[j]
    BY DEF Rises
  <2>1. i \in DOMAIN s
    BY <1>1
  <2>2. CASE j \in DOMAIN s
    BY <1>1, <2>1, <2>2 DEF Rises
  <2>3. CASE j = Len(s) + 1
    BY <1>1, <2>1, <2>3
  <2>4. QED
    BY <1>2, <2>2, <2>3
<1>4. ToSet(t) = ToSet(s) \cup {x}
  <2>1. ASSUME NEW y \in ToSet(t)
        PROVE  y \in ToSet(s) \cup {x}
    BY <1>1, <1>2, <2>1 DEF ToSet
  <2>2. ASSUME NEW y \in ToSet(s)
        PROVE  y \in ToSet(t)
    BY <1>1, <1>2, <2>2 DEF ToSet
  <2>3. x \in ToSet(t)
    BY <1>1, <1>2 DEF ToSet
  <2>4. QED
    BY <2>1, <2>2, <2>3
<1>5. QED
  BY <1>1, <1>3, <1>4 DEF t

LEMMA RemoveRises ==
    ASSUME NEW s \in Seq(Ids), Rises(s), NEW i \in DOMAIN s
    PROVE  /\ RemoveAt(s, i) \in Seq(Ids) /\ Rises(RemoveAt(s, i))
           /\ ToSet(RemoveAt(s, i)) \subseteq ToSet(s)
           /\ \A y \in ToSet(s) : y = s[i] \/ y \in ToSet(RemoveAt(s, i))
           /\ s[i] \notin ToSet(RemoveAt(s, i))
<1> DEFINE t == RemoveAt(s, i)
           at(j) == IF j < i THEN j ELSE j + 1
<1>1. /\ t \in Seq(Ids) /\ Len(t) = Len(s) - 1
      /\ \A j \in 1..(Len(s) - 1) : t[j] = IF j < i THEN s[j] ELSE s[j + 1]
  BY WithoutPlace
<1>2. /\ Len(s) \in Nat /\ DOMAIN s = 1..Len(s) /\ i \in 1..Len(s)
      /\ DOMAIN t = 1..(Len(s) - 1) /\ \A j \in DOMAIN s : s[j] \in Int
  <2>1. /\ Len(s) \in Nat /\ DOMAIN s = 1..Len(s) /\ i \in 1..Len(s)
        /\ \A j \in DOMAIN s : s[j] \in Ids
    OBVIOUS
  <2>2. DOMAIN t = 1..(Len(s) - 1)
    <3> HIDE DEF t
    <3>1. t \in Seq(Ids) /\ Len(t) = Len(s) - 1
      BY <1>1
    <3>2. QED
      BY <3>1
  <2>3. \A j \in DOMAIN s : s[j] \in Int
    BY <2>1, IdsAreNumbers
  <2>4. QED
    BY <2>1, <2>2, <2>3
<1> HIDE DEF t
<1>3. \A j \in DOMAIN t : at(j) \in DOMAIN s /\ at(j) # i /\ t[j] = s[at(j)]
  BY <1>1, <1>2
<1>4. \A j, k \in DOMAIN t : j < k => at(j) < at(k)
  BY <1>2
<1> HIDE DEF at
<1>5. Rises(t)
  BY <1>3, <1>4 DEF Rises
<1>6. ToSet(t) \subseteq ToSet(s)
  BY <1>3 DEF ToSet
<1>7. ASSUME NEW j \in DOMAIN s, j # i
      PROVE  s[j] \in ToSet(t)
  <2>1. CASE j < i
    <3>1. j \in DOMAIN t /\ t[j] = s[j]
      BY <1>1, <1>2, <2>1
    <3>2. QED
      BY <3>1 DEF ToSet
  <2>2. CASE ~ (j < i)
    <3>1. j - 1 \in DOMAIN t /\ ~ (j - 1 < i) /\ (j - 1) + 1 = j
      BY <1>1, <1>2, <1>7, <2>2
    <3>2. t[j - 1] = s[j]
      BY <1>1, <1>2, <3>1
    <3>3. QED
      BY <3>1, <3>2 DEF ToSet
  <2>3. QED
    BY <2>1, <2>2
<1>8. \A y \in ToSet(s) : y = s[i] \/ y \in ToSet(t)
  BY <1>7 DEF ToSet
<1>9. s[i] \notin ToSet(t)
  <2>1. ASSUME NEW j \in DOMAIN t
        PROVE  t[j] # s[i]
    <3>1. at(j) \in DOMAIN s /\ at(j) # i /\ t[j] = s[at(j)]
      BY <1>3
    <3>2. at(j) < i \/ i < at(j)
      BY <1>2, <3>1
    <3>3. s[at(j)] < s[i] \/ s[i] < s[at(j)]
      BY <3>1, <3>2 DEF Rises
    <3>4. s[at(j)] \in Int /\ s[i] \in Int
      BY <1>2, <3>1
    <3>5. QED
      BY <3>1, <3>3, <3>4
  <2>2. QED
    BY <2>1 DEF ToSet
<1>10. QED
  BY <1>1, <1>5, <1>6, <1>8, <1>9 DEF t

LEMMA JoinRises ==
    ASSUME NEW s \in Seq(Ids), NEW t \in Seq(Ids)
    PROVE  /\ s \o t \in Seq(Ids)
           /\ ToSet(s \o t) = ToSet(s) \cup ToSet(t)
           /\ Rises(s) /\ Rises(t) /\ (\A i \in DOMAIN s : \A j \in DOMAIN t : s[i] < t[j])
                 => Rises(s \o t)
<1> DEFINE u == s \o t
<1>1. /\ u \in Seq(Ids) /\ Len(u) = Len(s) + Len(t)
      /\ \A i \in 1..(Len(s) + Len(t)) :
            u[i] = IF i <= Len(s) THEN s[i] ELSE t[i - Len(s)]
  BY ConcatProperties
<1>2. /\ Len(s) \in Nat /\ Len(t) \in Nat /\ DOMAIN s = 1..Len(s) /\ DOMAIN t = 1..Len(t)
      /\ DOMAIN u = 1..(Len(s) + Len(t))
  BY <1>1
<1> HIDE DEF u
<1>3. \A i \in DOMAIN u : \/ i \in DOMAIN s /\ u[i] = s[i]
                          \/ /\ i - Len(s) \in DOMAIN t /\ u[i] = t[i - Len(s)]
                             /\ i \notin DOMAIN s
  BY <1>1, <1>2
<1>4. ASSUME Rises(s), Rises(t), \A i \in DOMAIN s : \A j \in DOMAIN t : s[i] < t[j]
      PROVE  Rises(u)
  <2> SUFFICES ASSUME NEW i \in DOMAIN u, NEW j \in DOMAIN u, i < j
               PROVE  u[i] < u[j]
    BY DEF Rises
  <2>1. CASE i \in DOMAIN s /\ u[i] = s[i] /\ j \in DOMAIN s /\ u[j] = s[j]
    BY <1>4, <2>1 DEF Rises
  <2>2. CASE /\ i \in DOMAIN s /\ u[i] = s[i]
             /\ j - Len(s) \in DOMAIN t /\ u[j] = t[j - Len(s)]
    BY <1>4, <2>2
  <2>3. CASE /\ i - Len(s) \in DOMAIN t /\ u[i] = t[i - Len(s)]
             /\ j - Len(s) \in DOMAIN t /\ u[j] = t[j - Len(s)]
    <3>1. i - Len(s) < j - Len(s)
      BY <1>2
    <3>2. QED
      BY <1>4, <2>3, <3>1 DEF Rises
  <2>4. j \in DOMAIN s => i \in DOMAIN s
    BY <1>2
  <2>5. QED
    BY <1>3, <2>1, <2>2, <2>3, <2>4
<1>5. \A i \in DOMAIN s : i \in DOMAIN u /\ u[i] = s[i]
  BY <1>1, <1>2
<1>6. \A i \in DOMAIN t : i + Len(s) \in DOMAIN u /\ u[i + Len(s)] = t[i]
  <2>1. ASSUME NEW i \in DOMAIN t
        PROVE  i + Len(s) \in DOMAIN u /\ u[i + Len(s)] = t[i]
    <3>1. /\ i + Len(s) \in 1..(Len(s) + Len(t)) /\ ~ (i + Len(s) <= Len(s))
          /\ (i + Len(s)) - Len(s) = i
      BY <1>2
    <3>2. QED
      BY <1>1, <1>2, <3>1
  <2>2. QED
    BY <2>1
<1>7. ToSet(u) \subseteq ToSet(s) \cup ToSet(t)
  BY <1>3 DEF ToSet
<1>8. ToSet(s) \subseteq ToSet(u) /\ ToSet(t) \subseteq ToSet(u)
  BY <1>5, <1>6 DEF ToSet
<1>9. QED
  BY <1>1, <1>4, <1>7, <1>8 DEF u

LEMMA TurnFacts ==
    ASSUME TurnInv, NEW c \in Answerers
    PROVE  /\ answering[c] \in Turn /\ answering[c].pc \in TurnPcs
           /\ answering[c].id \in Ids \cup {0}
           /\ answering[c].read \in Seq(Ids) /\ answering[c].over \in Seq(Ids)
           /\ answering[c].sent \subseteq Ids
           /\ answering[c].answer \in Responses \cup {NoResponse}
           /\ c # Nobody
BY TurnsOfModelAssumption DEF TurnInv, TurnTypes, Turn

LEMMA IdFacts ==
    ASSUME TurnInv
    PROVE  /\ born \in Nat /\ born <= MaxTurns /\ MaxTurns \in Nat /\ Window \in Nat \ {0}
           /\ marker \in Nat /\ 0 \notin Ids /\ Ids \subseteq Nat \ {0}
           /\ \A i \in 1..born : i \in Ids
           /\ thread \in Seq(Ids) /\ Rises(thread) /\ summary \in Seq(Ids)
           /\ \A k \in ToSet(thread) : k \in Ids /\ k <= born
           /\ \A k \in ToSet(summary) : k \in Ids
<1>1. /\ MaxTurns \in Nat /\ Window \in Nat \ {0} /\ born \in 0..MaxTurns
      /\ marker \in Ids \cup {0} /\ thread \in Seq(Ids) /\ summary \in Seq(Ids)
      /\ Rises(thread) /\ \A i \in DOMAIN thread : thread[i] <= born
  BY TurnsOfModelAssumption DEF TurnInv, TurnTypes, ThreadRises
<1>2. 0 \notin Ids /\ Ids \subseteq Nat \ {0} /\ \A i \in 1..born : i \in Ids
  BY <1>1 DEF Ids
<1>3. \A k \in ToSet(thread) : k \in Ids /\ k <= born
  BY <1>1 DEF ToSet
<1>4. \A k \in ToSet(summary) : k \in Ids
  BY <1>1 DEF ToSet
<1>5. QED
  BY <1>1, <1>2, <1>3, <1>4

\* What a step makes of the thread: a new id at its end, or one less, which is
\* noticed if the marker is, or is about to be, set to it.
ThreadStep ==
    /\ thread' \in Seq(Ids) /\ Rises(thread') /\ born' \in born..MaxTurns
    /\ \A k \in ToSet(thread') : k \in ToSet(thread) \/ (k > born /\ k <= born')
    /\ \A k \in ToSet(thread) :
          \/ k \in ToSet(thread')
          \/ /\ k = marker => unmarked'
             /\ \A c \in Answerers :
                   Stands(c, "fold") /\ Last(answering[c].over) = k => unmarked'
    /\ unmarked' \in BOOLEAN
    /\ unmarked => unmarked'

LEMMA SameThread ==
    ASSUME TurnInv, UNCHANGED <<thread, born, unmarked>>
    PROVE  ThreadStep
BY IdFacts DEF ThreadStep, TurnInv, TurnTypes

LEMMA ThreadGrows ==
    ASSUME TurnInv, NEW a \in Responses, Logged(a), UNCHANGED unmarked
    PROVE  /\ ThreadStep /\ born' = born + 1 /\ born + 1 \in Ids
           /\ responses' = [responses EXCEPT ![born + 1] = a]
<1>1. /\ born' = born + 1 /\ born + 1 \in Ids /\ born + 1 <= MaxTurns
      /\ thread' = Append(thread, born + 1)
      /\ responses' = [responses EXCEPT ![born + 1] = a]
  BY IdFacts DEF Logged, Ids
<1>2. \A i \in DOMAIN thread : thread[i] < born + 1
  <2>1. \A i \in DOMAIN thread : thread[i] \in Nat /\ thread[i] <= born
    BY IdsAreNumbers DEF TurnInv, TurnTypes, ThreadRises
  <2>2. born \in Nat
    BY IdFacts
  <2>3. QED
    BY <2>1, <2>2
<1>3. /\ thread' \in Seq(Ids) /\ Rises(thread')
      /\ ToSet(thread') = ToSet(thread) \cup {born + 1}
  BY <1>1, <1>2, IdFacts, AppendRises
<1>4. QED
  BY <1>1, <1>3, IdFacts DEF ThreadStep, TurnInv, TurnTypes

LEMMA ThreadLoses ==
    ASSUME TurnInv, NEW i \in Ids, Discarded(i), UNCHANGED born
    PROVE  ThreadStep
<1>1. /\ unmarked' = \/ unmarked \/ marker = i
                     \/ \E c \in Answerers : Stands(c, "fold") /\ Last(answering[c].over) = i
      /\ thread' = IF Kept(i) THEN RemoveAt(thread, PlaceInThread(i)) ELSE thread
      /\ unmarked \in BOOLEAN
  BY DEF Discarded, TurnInv, TurnTypes
<1>2. CASE Kept(i)
  <2>1. PlaceInThread(i) \in DOMAIN thread /\ thread[PlaceInThread(i)] = i
    BY <1>2 DEF Kept, ToSet, PlaceInThread
  <2>2. /\ thread' \in Seq(Ids) /\ Rises(thread') /\ ToSet(thread') \subseteq ToSet(thread)
        /\ \A k \in ToSet(thread) : k = i \/ k \in ToSet(thread')
    BY <1>1, <1>2, <2>1, IdFacts, RemoveRises
  <2>3. QED
    BY <1>1, <2>2, IdFacts DEF ThreadStep
<1>3. CASE ~ Kept(i)
  BY <1>1, <1>3, IdFacts DEF ThreadStep
<1>4. QED
  BY <1>2, <1>3

\* Who acts changes what it does itself, and nobody else's.
OnlyAnswering(c) ==
    /\ answering' \in [Answerers -> Turn]
    /\ \A d \in Answerers \ {c} : answering'[d] = answering[d]

LEMMA GoesTo ==
    ASSUME TurnInv, NEW c \in Answerers, NEW pc \in TurnPcs, Goes(c, pc)
    PROVE  /\ OnlyAnswering(c) /\ Stands(c, pc)'
           /\ answering'[c] = [answering[c] EXCEPT !.pc = pc]
           /\ answering'[c].id = answering[c].id /\ answering'[c].read = answering[c].read
           /\ answering'[c].over = answering[c].over /\ answering'[c].sent = answering[c].sent
           /\ answering'[c].answer = answering[c].answer
           /\ answering'[c].footer = answering[c].footer
BY TurnFacts DEF TurnInv, TurnTypes, Turn, OnlyAnswering, Goes, Stands

LEMMA DoneTo ==
    ASSUME TurnInv, NEW c \in Answerers, Done(c)
    PROVE  /\ OnlyAnswering(c) /\ Stands(c, "idle")'
           /\ lock' \in Answerers \cup {Nobody}
           /\ \A d \in Answerers \ {c} : lock = d => lock' = d
BY DEF TurnInv, TurnTypes, Turn, OnlyAnswering, Done, Stands, NoTurn, TurnPcs, Nobody

LEMMA TurnBecomes ==
    ASSUME TurnInv, NEW c \in Answerers, NEW new \in Turn,
           answering' = [answering EXCEPT ![c] = new]
    PROVE  /\ answering' \in [Answerers -> Turn] /\ answering'[c] = new
           /\ \A d \in Answerers \ {c} : answering'[d] = answering[d]
BY DEF TurnInv, TurnTypes

\* What a caller has read, answered or repaired is kept in its record.
LEMMA TurnSends ==
    ASSUME TurnInv, NEW c \in Answerers, NEW pc \in TurnPcs, NEW sent \in SUBSET Ids,
           answering' = [answering EXCEPT ![c].pc = pc, ![c].sent = sent]
    PROVE  /\ OnlyAnswering(c) /\ answering'[c].pc = pc
           /\ answering'[c].read = answering[c].read /\ answering'[c].sent = sent
<1> DEFINE new == [answering[c] EXCEPT !.pc = pc, !.sent = sent]
<1>1. /\ new \in Turn /\ new.pc = pc /\ new.read = answering[c].read /\ new.sent = sent
  BY TurnFacts DEF Turn
<1>2. answering' = [answering EXCEPT ![c] = new]
  OBVIOUS
<1> HIDE DEF new
<1>3. /\ answering' \in [Answerers -> Turn] /\ answering'[c] = new
      /\ \A d \in Answerers \ {c} : answering'[d] = answering[d]
  BY <1>1, <1>2, TurnBecomes
<1>4. QED
  BY <1>1, <1>3 DEF OnlyAnswering

LEMMA TurnAnswers ==
    ASSUME TurnInv, NEW c \in Answerers, NEW pc \in TurnPcs, NEW a \in Responses,
           NEW i \in Ids,
           answering' = [answering EXCEPT ![c].pc = pc, ![c].answer = a, ![c].id = i]
    PROVE  /\ OnlyAnswering(c) /\ answering'[c].pc = pc
           /\ answering'[c].id = i /\ answering'[c].answer = a
<1> DEFINE new == [answering[c] EXCEPT !.pc = pc, !.answer = a, !.id = i]
<1>1. new \in Turn /\ new.pc = pc /\ new.id = i /\ new.answer = a
  BY TurnFacts DEF Turn
<1>2. answering' = [answering EXCEPT ![c] = new]
  OBVIOUS
<1> HIDE DEF new
<1>3. /\ answering' \in [Answerers -> Turn] /\ answering'[c] = new
      /\ \A d \in Answerers \ {c} : answering'[d] = answering[d]
  BY <1>1, <1>2, TurnBecomes
<1>4. QED
  BY <1>1, <1>3 DEF OnlyAnswering

LEMMA TurnRepairs ==
    ASSUME TurnInv, NEW c \in Answerers, NEW pc \in TurnPcs, NEW a \in Responses,
           NEW ok \in BOOLEAN,
           answering' = [answering EXCEPT ![c].pc = pc, ![c].answer = a, ![c].footer = ok]
    PROVE  /\ OnlyAnswering(c) /\ answering'[c].pc = pc
           /\ answering'[c].id = answering[c].id /\ answering'[c].answer = a
           /\ answering'[c].footer = ok
<1> DEFINE new == [answering[c] EXCEPT !.pc = pc, !.answer = a, !.footer = ok]
<1>1. /\ new \in Turn /\ new.pc = pc /\ new.id = answering[c].id /\ new.answer = a
      /\ new.footer = ok
  BY TurnFacts DEF Turn
<1>2. answering' = [answering EXCEPT ![c] = new]
  OBVIOUS
<1> HIDE DEF new
<1>3. /\ answering' \in [Answerers -> Turn] /\ answering'[c] = new
      /\ \A d \in Answerers \ {c} : answering'[d] = answering[d]
  BY <1>1, <1>2, TurnBecomes
<1>4. QED
  BY <1>1, <1>3 DEF OnlyAnswering

\* A caller reads its history.
LEMMA HistoryFacts ==
    ASSUME TurnInv, Len(thread) > Window
    PROVE  LET over == Overflow(thread)
               live == ToSet(Live(thread))
           IN  /\ over \in Seq(Ids) /\ Rises(over) /\ live \subseteq Ids
               /\ ToSet(thread) \subseteq ToSet(summary) \cup live \cup ToSet(over)
               /\ over # <<>> =>
                     /\ Kept(Last(over)) /\ Last(over) <= born
                     /\ \A k \in ToSet(thread) :
                           k <= Last(over) => k \in ToSet(over) \cup ToSet(summary)
                     /\ ~ unmarked => \A i \in DOMAIN over : marker < over[i]
<1> DEFINE over == Overflow(thread)
           live == Live(thread)
           at == {k \in DOMAIN thread : thread[k] = marker}
           from == IF at = {} THEN 0 ELSE CHOOSE k \in at : TRUE
           n == Len(thread) - Window
<1>1. /\ thread \in Seq(Ids) /\ Rises(thread) /\ Len(thread) \in Nat
      /\ DOMAIN thread = 1..Len(thread) /\ n \in 0..Len(thread) /\ n \in 1..Len(thread)
      /\ Len(thread) \in 0..Len(thread)
  BY IdFacts
<1>2. /\ from \in 0..Len(thread)
      /\ from = 0 => marker \notin ToSet(thread)
      /\ from > 0 => from \in DOMAIN thread /\ thread[from] = marker
  <2>1. CASE at = {}
    BY <1>1, <2>1 DEF ToSet
  <2>2. CASE at # {}
    <3>1. from \in at
      BY <2>2
    <3>2. QED
      BY <1>1, <3>1
  <2>3. QED
    BY <2>1, <2>2
<1>3. over = SubSeq(thread, from + 1, n) /\ live = SubSeq(thread, n + 1, Len(thread))
  BY DEF Overflow, Live
<1> HIDE DEF over, live, at, from, n
<1>4. /\ over \in Seq(Ids)
      /\ Len(over) = IF from < n THEN n - from ELSE 0
      /\ \A i \in DOMAIN over : from + i \in DOMAIN thread /\ over[i] = thread[from + i]
      /\ Rises(over)
      /\ \A j \in (from + 1)..n : thread[j] \in ToSet(over)
  BY <1>1, <1>2, <1>3, SubRises
<1>5. /\ live \in Seq(Ids)
      /\ \A j \in (n + 1)..Len(thread) : thread[j] \in ToSet(live)
  BY <1>1, <1>3, SubRises
<1>6. ToSet(live) \subseteq Ids
  BY <1>5 DEF ToSet
<1>7. ASSUME NEW j \in DOMAIN thread, j <= n
      PROVE  thread[j] \in ToSet(over) \cup ToSet(summary)
  <2>1. CASE from < j
    <3>1. j \in (from + 1)..n
      BY <1>1, <1>2, <1>7, <2>1
    <3>2. QED
      BY <1>4, <3>1
  <2>2. CASE ~ (from < j)
    <3>1. from > 0 /\ j \in Nat /\ from \in Nat /\ j <= from /\ j > 0
      BY <1>1, <1>2, <2>2
    <3>2. from \in DOMAIN thread /\ thread[from] = marker
      BY <1>2, <3>1
    <3>3. Kept(marker) /\ thread[j] \in ToSet(thread)
      BY <3>2 DEF Kept, ToSet
    <3>4. thread[j] <= marker
      <4>1. CASE j = from
        BY <3>2, <4>1, IdFacts
      <4>2. CASE j < from
        BY <3>2, <3>3, <4>2, IdFacts DEF Rises
      <4>3. QED
        BY <3>1, <4>1, <4>2
    <3>5. QED
      BY <3>3, <3>4 DEF TurnInv, MarkerFits
  <2>3. QED
    BY <2>1, <2>2
<1>8. ToSet(thread) \subseteq ToSet(summary) \cup ToSet(live) \cup ToSet(over)
  <2>1. ASSUME NEW j \in DOMAIN thread
        PROVE  thread[j] \in ToSet(summary) \cup ToSet(live) \cup ToSet(over)
    <3>1. CASE j <= n
      BY <1>7, <3>1
    <3>2. CASE ~ (j <= n)
      <4>1. j \in (n + 1)..Len(thread)
        BY <1>1, <3>2
      <4>2. QED
        BY <1>5, <4>1
    <3>3. QED
      BY <3>1, <3>2
  <2>2. QED
    BY <2>1 DEF ToSet
<1>9. ASSUME over # <<>>
      PROVE  /\ Kept(Last(over)) /\ Last(over) <= born
             /\ \A k \in ToSet(thread) :
                   k <= Last(over) => k \in ToSet(over) \cup ToSet(summary)
             /\ ~ unmarked => \A i \in DOMAIN over : marker < over[i]
  <2>1. Len(over) # 0
    BY <1>4, <1>9
  <2>2. from < n /\ Len(over) = n - from /\ n \in DOMAIN thread /\ from + (n - from) = n
    BY <1>1, <1>2, <1>4, <2>1
  <2>3. Len(over) \in DOMAIN over
    BY <1>4, <2>1
  <2>4. Last(over) = thread[n]
    BY <1>4, <2>2, <2>3 DEF Last
  <2>5. Kept(Last(over)) /\ Last(over) <= born
    BY <2>2, <2>4, IdFacts DEF Kept, ToSet
  <2>6. ASSUME NEW j \in DOMAIN thread, thread[j] <= Last(over)
        PROVE  j <= n
    <3>1. thread[j] \in Nat /\ thread[n] \in Nat
      BY <2>2, IdFacts
    <3>2. ~ (thread[n] < thread[j])
      BY <2>4, <2>6, <3>1
    <3>3. ~ (n < j)
      BY <2>2, <3>2 DEF Rises, TurnInv, ThreadRises
    <3>4. QED
      BY <1>1, <3>3
  <2>7. \A k \in ToSet(thread) :
            k <= Last(over) => k \in ToSet(over) \cup ToSet(summary)
    BY <1>7, <2>6 DEF ToSet
  <2>8. ASSUME ~ unmarked, NEW i \in DOMAIN over
        PROVE  marker < over[i]
    <3>1. from + i \in DOMAIN thread /\ over[i] = thread[from + i]
      BY <1>4
    <3>2. CASE marker = 0
      BY <3>1, <3>2, IdFacts
    <3>3. CASE Kept(marker)
      <4>1. from \in DOMAIN thread /\ thread[from] = marker
        BY <1>1, <1>2, <3>3 DEF Kept
      <4>2. from < from + i
        BY <1>2, <1>4
      <4>3. QED
        BY <3>1, <4>1, <4>2, IdFacts DEF Rises
    <3>4. QED
      BY <2>8, <3>2, <3>3 DEF TurnInv, MarkerFits
  <2>9. QED
    BY <2>5, <2>7, <2>8
<1>10. QED
  BY <1>4, <1>6, <1>8, <1>9 DEF over, live

\* The steps of a caller.
CallerStep(c) ==
    \/ \E session \in BOOLEAN : BeginTurn(c, session)
    \/ RouteToTool(c)
    \/ ReadHistory(c) \/ FoldOverflow(c) \/ FoldFails(c)
    \/ Answered(c) \/ AnswerFails(c)
    \/ DiscardRefusal(c) \/ PassGuard(c)
    \/ RepairCode(c) \/ PersistRepair(c) \/ RecordFailure(c) \/ ShowReply(c)

\* What a step of a caller leaves to the others.
CallerFrame(c) ==
    /\ OnlyAnswering(c)
    /\ lock' \in Answerers \cup {Nobody}
    /\ \A d \in Answerers \ {c} : lock = d => lock' = d

LEMMA BeginMoves ==
    ASSUME TurnInv, NEW c \in Answerers, NEW session \in BOOLEAN, BeginTurn(c, session)
    PROVE  /\ CallerFrame(c) /\ answering'[c].read = <<>>
           /\ \/ Stands(c, "history")' /\ lock' = c
              \/ Stands(c, "answer")'
           /\ UNCHANGED <<thread, responses, summary, marker, born, shown, unmarked, rated>>
<1>1. answering[c].read = <<>> /\ lock \in Answerers \cup {Nobody} /\ Nobody \notin Answerers
  BY TurnsOfModelAssumption
  DEF BeginTurn, Free, TurnInv, TurnTypes, FoldFits, FoldFit
<1>2. UNCHANGED <<thread, responses, summary, marker, born, shown, unmarked, rated>>
  BY DEF BeginTurn, rest
<1>3. CASE session
  <2>1. Goes(c, "history") /\ lock = Nobody /\ lock' = c
    BY <1>3 DEF BeginTurn
  <2>2. QED
    BY <1>1, <1>2, <2>1, GoesTo DEF TurnPcs, CallerFrame
<1>4. CASE ~ session
  <2>1. Goes(c, "answer") /\ lock' = lock
    BY <1>4 DEF BeginTurn
  <2>2. QED
    BY <1>1, <1>2, <2>1, GoesTo DEF TurnPcs, CallerFrame
<1>5. QED
  BY <1>3, <1>4

LEMMA RouteMoves ==
    ASSUME TurnInv, NEW c \in Answerers, RouteToTool(c)
    PROVE  /\ CallerFrame(c) /\ answering' = answering /\ Stands(c, "idle")
           /\ lock' = lock /\ ThreadStep
           /\ born' = born + 1 /\ born + 1 \in Ids
           /\ responses' = [responses EXCEPT ![born + 1] = "tool"]
           /\ UNCHANGED <<summary, marker, shown, unmarked, rated>>
<1>1. Logged("tool") /\ UNCHANGED unmarked /\ Stands(c, "idle")
  BY DEF RouteToTool, Free
<1>2. /\ ThreadStep /\ born' = born + 1 /\ born + 1 \in Ids
      /\ responses' = [responses EXCEPT ![born + 1] = "tool"]
  BY <1>1, ThreadGrows DEF Responses
<1>3. UNCHANGED <<answering, lock, summary, marker, shown, unmarked, rated>>
  BY DEF RouteToTool, rest
<1>4. QED
  BY <1>1, <1>2, <1>3 DEF CallerFrame, OnlyAnswering, TurnInv, TurnTypes

LEMMA HistoryMoves ==
    ASSUME TurnInv, NEW c \in Answerers, ReadHistory(c)
    PROVE  /\ CallerFrame(c) /\ FoldFit(c)'
           /\ answering'[c].pc \in {"answer", "fold"}
           /\ UNCHANGED <<thread, responses, summary, marker, lock, born, shown, unmarked,
                          rated>>
<1> DEFINE over == IF Len(thread) > Window THEN Overflow(thread) ELSE <<>>
           live == IF Len(thread) > Window THEN ToSet(Live(thread)) ELSE ToSet(thread)
           sent == ToSet(summary) \cup live
           pc == IF over = <<>> THEN "answer" ELSE "fold"
<1>1. /\ answering' = [answering EXCEPT ![c].pc = pc, ![c].read = thread, ![c].over = over,
                                        ![c].sent = sent]
      /\ Stands(c, "history")
      /\ UNCHANGED <<thread, responses, summary, marker, lock, born, shown, unmarked,
                     rated>>
  <2>1. answering' = [answering EXCEPT ![c].pc = pc, ![c].read = thread, ![c].over = over,
                          ![c].sent = ToSet(summary) \cup
                              (IF Len(thread) > Window THEN ToSet(Live(thread))
                               ELSE ToSet(thread))]
    BY DEF ReadHistory
  <2>2. QED
    BY <2>1 DEF ReadHistory, rest
<1>2. /\ over \in Seq(Ids) /\ Rises(over) /\ live \subseteq Ids
      /\ ToSet(thread) \subseteq ToSet(summary) \cup live \cup ToSet(over)
      /\ over # <<>> =>
            /\ Kept(Last(over)) /\ Last(over) <= born
            /\ \A k \in ToSet(thread) :
                  k <= Last(over) => k \in ToSet(over) \cup ToSet(summary)
            /\ ~ unmarked => \A i \in DOMAIN over : marker < over[i]
  <2>1. CASE Len(thread) > Window
    BY <2>1, HistoryFacts
  <2>2. CASE ~ (Len(thread) > Window)
    <3>1. over = <<>> /\ live = ToSet(thread)
      BY <2>2
    <3>2. over \in Seq(Ids)
      <4>1. <<>> \in Seq(Ids)
        OBVIOUS
      <4>2. QED
        BY <3>1, <4>1
    <3>3. \A i, j \in DOMAIN over : i < j => over[i] < over[j]
      BY <3>1
    <3>4. live \subseteq Ids
      BY <3>1, IdFacts
    <3>5. QED
      BY <3>1, <3>2, <3>3, <3>4 DEF Rises
  <2>3. QED
    BY <2>1, <2>2
<1>3. sent \subseteq Ids /\ lock = c
  BY <1>1, <1>2, IdFacts DEF TurnInv, FoldFits, FoldFit
<1> HIDE DEF over, live, sent
<1>4. /\ OnlyAnswering(c) /\ answering'[c].pc = pc /\ answering'[c].read = thread
      /\ answering'[c].over = over /\ answering'[c].sent = sent
  <2>1. pc \in TurnPcs /\ thread \in Seq(Ids) /\ sent \in SUBSET Ids /\ over \in Seq(Ids)
    BY <1>2, <1>3, IdFacts DEF TurnPcs
  <2> HIDE DEF pc
  <2> DEFINE new == [answering[c] EXCEPT !.pc = pc, !.read = thread, !.over = over,
                                         !.sent = sent]
  <2>2. /\ new \in Turn /\ new.pc = pc /\ new.read = thread /\ new.over = over
        /\ new.sent = sent
    BY <2>1, TurnFacts DEF Turn
  <2>3. answering' = [answering EXCEPT ![c] = new]
    BY <1>1
  <2> HIDE DEF new
  <2>4. /\ answering' \in [Answerers -> Turn] /\ answering'[c] = new
        /\ \A d \in Answerers \ {c} : answering'[d] = answering[d]
    BY <2>2, <2>3, TurnBecomes
  <2>5. QED
    BY <2>2, <2>4 DEF OnlyAnswering
<1>5. CallerFrame(c)
  BY <1>1, <1>4 DEF CallerFrame, TurnInv, TurnTypes
<1>6. CASE over = <<>>
  <2>1. ToSet(over) = {}
    BY <1>6 DEF ToSet
  <2>2. ToSet(thread) \subseteq sent
    BY <1>2, <2>1 DEF sent
  <2>3. answering'[c].pc = "answer" /\ answering'[c].read = thread /\ answering'[c].sent = sent
    BY <1>4, <1>6
  <2>4. QED
    BY <1>1, <1>5, <2>2, <2>3 DEF FoldFit, Stands
<1>7. CASE over # <<>>
  <2>1. ToSet(thread) \subseteq sent \cup ToSet(over)
    BY <1>2 DEF sent
  <2>2. /\ answering'[c].pc = "fold" /\ answering'[c].read = thread
        /\ answering'[c].sent = sent /\ answering'[c].over = over
    BY <1>4, <1>7
  <2>4. /\ over # <<>> /\ Rises(over) /\ Last(over) <= born' /\ lock' = c
        /\ \A k \in ToSet(thread') :
              k <= Last(over) => k \in ToSet(over) \cup ToSet(summary')
        /\ ToSet(thread) \subseteq sent \cup ToSet(over)
        /\ ~ unmarked' => /\ Last(over) \in ToSet(thread')
                          /\ \A i \in DOMAIN over : marker' < over[i]
    BY <1>1, <1>2, <1>3, <1>7, <2>1 DEF Kept
  <2>5. QED
    BY <1>1, <1>5, <2>2, <2>4 DEF FoldFit, Stands, Kept
<1>8. QED
  BY <1>6, <1>7

LEMMA FoldMoves ==
    ASSUME TurnInv, NEW c \in Answerers, FoldOverflow(c)
    PROVE  /\ CallerFrame(c) /\ FoldFit(c)' /\ Stands(c, "answer")'
           /\ Stands(c, "fold") /\ lock' = lock /\ lock = c
           /\ summary' = summary \o answering[c].over
           /\ marker' = Last(answering[c].over)
           /\ UNCHANGED <<thread, responses, born, shown, unmarked, rated>>
<1> DEFINE over == answering[c].over
           sent == answering[c].sent \cup ToSet(over)
<1>1. /\ Stands(c, "fold") /\ summary' = summary \o over /\ marker' = Last(over)
      /\ answering' = [answering EXCEPT ![c].pc = "answer", ![c].sent = sent]
      /\ UNCHANGED <<thread, responses, lock, born, shown, unmarked, rated>>
  BY DEF FoldOverflow, rest
<1>2. /\ lock = c
      /\ ToSet(answering[c].read) \subseteq sent
  BY <1>1 DEF TurnInv, FoldFits, FoldFit
<1>3. sent \subseteq Ids
  BY TurnFacts DEF ToSet
<1>4. /\ OnlyAnswering(c) /\ answering'[c].pc = "answer"
      /\ answering'[c].read = answering[c].read /\ answering'[c].sent = sent
  <2>1. "answer" \in TurnPcs /\ sent \in SUBSET Ids
    BY <1>3 DEF TurnPcs
  <2> HIDE DEF sent
  <2>2. QED
    BY <1>1, <2>1, TurnSends
<1>5. CallerFrame(c)
  BY <1>1, <1>4 DEF CallerFrame, TurnInv, TurnTypes
<1>6. FoldFit(c)'
  BY <1>2, <1>4 DEF FoldFit, Stands
<1>7. QED
  BY <1>1, <1>2, <1>4, <1>5, <1>6 DEF Stands

LEMMA FoldFailMoves ==
    ASSUME TurnInv, NEW c \in Answerers, FoldFails(c)
    PROVE  /\ CallerFrame(c) /\ FoldFit(c)' /\ Stands(c, "answer")'
           /\ UNCHANGED <<thread, responses, summary, marker, lock, born, shown, unmarked,
                          rated>>
<1>1. /\ answering' = [answering EXCEPT ![c].pc = "answer", ![c].read = <<>>]
      /\ UNCHANGED <<thread, responses, summary, marker, lock, born, shown, unmarked,
                     rated>>
  BY DEF FoldFails, rest
<1>2. <<>> \in Seq(Ids) /\ ToSet(<<>>) = {}
  BY DEF ToSet
<1>3. /\ OnlyAnswering(c) /\ answering'[c].pc = "answer"
      /\ answering'[c].read = <<>> /\ answering'[c].sent = answering[c].sent
  BY <1>1, <1>2, TurnFacts DEF TurnInv, TurnTypes, Turn, OnlyAnswering, TurnPcs
<1>4. ToSet(answering'[c].read) \subseteq answering'[c].sent
  BY <1>2, <1>3
<1>5. CallerFrame(c)
  BY <1>1, <1>3 DEF CallerFrame, TurnInv, TurnTypes
<1>6. QED
  BY <1>1, <1>3, <1>4, <1>5 DEF FoldFit, Stands

LEMMA AnsweredMoves ==
    ASSUME TurnInv, NEW c \in Answerers, Answered(c)
    PROVE  /\ CallerFrame(c) /\ Stands(c, "answer") /\ Stands(c, "guard")'
           /\ lock' = lock /\ ThreadStep
           /\ born' = born + 1 /\ born + 1 \in Ids /\ answering'[c].id = born + 1
           /\ answering'[c].answer \in Responses
           /\ responses' = [responses EXCEPT ![born + 1] = answering'[c].answer]
           /\ UNCHANGED <<summary, marker, shown, unmarked, rated>>
<1>1. PICK a \in Answers :
          /\ Logged(a)
          /\ answering' = [answering EXCEPT ![c].pc = "guard", ![c].answer = a,
                              ![c].id = born + 1]
  BY DEF Answered
<1>2. /\ Stands(c, "answer")
      /\ UNCHANGED <<summary, marker, lock, shown, unmarked, rated>>
  BY DEF Answered, rest
<1>3. a \in Responses
  BY DEF Responses
<1>4. /\ ThreadStep /\ born' = born + 1 /\ born + 1 \in Ids
      /\ responses' = [responses EXCEPT ![born + 1] = a]
  BY <1>1, <1>2, <1>3, ThreadGrows
<1>5. /\ OnlyAnswering(c) /\ answering'[c].pc = "guard"
      /\ answering'[c].id = born + 1 /\ answering'[c].answer = a
  BY <1>1, <1>3, <1>4, TurnAnswers DEF TurnPcs
<1>6. QED
  BY <1>2, <1>3, <1>4, <1>5 DEF CallerFrame, TurnInv, TurnTypes, Stands

\* A caller that ends its turn, having replied or not.
LEMMA EndMoves ==
    ASSUME TurnInv, NEW c \in Answerers,
           AnswerFails(c) \/ DiscardRefusal(c) \/ ShowReply(c)
    PROVE  /\ CallerFrame(c) /\ answering'[c] = NoTurn /\ ThreadStep
           /\ UNCHANGED <<responses, summary, marker, born>>
           /\ \/ shown' = shown
              \/ /\ Stands(c, "reply") /\ answering[c].footer = TRUE
                 /\ UNCHANGED <<thread, unmarked>>
                 /\ shown' = [shown EXCEPT ![answering[c].id] = answering[c].answer]
           /\ rated' \subseteq rated
<1>1. Done(c) /\ UNCHANGED <<responses, summary, marker, born>>
  BY DEF AnswerFails, DiscardRefusal, ShowReply
<1>2. answering'[c] = NoTurn
  BY <1>1 DEF Done, TurnInv, TurnTypes
<1>3. CallerFrame(c)
  BY <1>1, DoneTo DEF CallerFrame
<1>4. CASE AnswerFails(c)
  BY <1>1, <1>2, <1>3, <1>4, SameThread DEF AnswerFails, rest
<1>5. CASE DiscardRefusal(c)
  <2>1. answering[c].id \in 1..born /\ shown' = shown
    BY <1>5 DEF DiscardRefusal, Stands, TurnInv, AnswersOwn, AnswerOwn, Shows
  <2>2. answering[c].id \in Ids
    BY <2>1, IdFacts
  <2>3. CASE Discarded(answering[c].id)
    BY <1>1, <1>2, <1>3, <2>1, <2>2, <2>3, ThreadLoses DEF Discarded
  <2>4. CASE UNCHANGED <<thread, rated, unmarked>>
    BY <1>1, <1>2, <1>3, <2>1, <2>4, SameThread
  <2>5. QED
    BY <1>5, <2>3, <2>4 DEF DiscardRefusal
<1>6. CASE ShowReply(c)
  <2>1. Stands(c, "reply") /\ UNCHANGED <<thread, unmarked, rated>>
    BY <1>6 DEF ShowReply, rest
  <2>2. ThreadStep
    BY <1>1, <2>1, SameThread
  <2>3. CASE answering[c].footer
    <3>1. answering[c].footer = TRUE
      BY <2>3, TurnFacts DEF Turn
    <3>2. shown' = [shown EXCEPT ![answering[c].id] = answering[c].answer]
      BY <1>6, <2>3 DEF ShowReply
    <3>3. QED
      BY <1>1, <1>2, <1>3, <2>1, <2>2, <3>1, <3>2
  <2>4. CASE ~ answering[c].footer
    <3>1. shown' = shown
      BY <1>6, <2>4 DEF ShowReply
    <3>2. QED
      BY <1>1, <1>2, <1>3, <2>1, <2>2, <3>1
  <2>5. QED
    BY <2>3, <2>4
<1>7. QED
  BY <1>4, <1>5, <1>6

\* A caller on its way from the answer to the reply.
LEMMA GateMoves ==
    ASSUME TurnInv, NEW c \in Answerers,
           PassGuard(c) \/ RepairCode(c) \/ RecordFailure(c)
    PROVE  /\ CallerFrame(c) /\ answering[c].pc \in Shows
           /\ answering'[c].pc \in Shows \ {"guard"}
           /\ answering'[c].id = answering[c].id /\ answering'[c].answer = answering[c].answer
           /\ Stands(c, "guard") \/ answering'[c].footer = answering[c].footer
           /\ UNCHANGED <<thread, responses, summary, marker, lock, born, shown, unmarked>>
           /\ rated' \subseteq rated \cup Ids
<1>1. UNCHANGED <<thread, responses, summary, marker, lock, born, shown, unmarked>>
  BY DEF PassGuard, RepairCode, RecordFailure
<1>2. lock' \in Answerers \cup {Nobody} /\ \A d \in Answerers \ {c} : lock = d => lock' = d
  BY <1>1 DEF TurnInv, TurnTypes
<1>3. CASE PassGuard(c)
  <2> DEFINE pc == IF answering[c].answer = "broken" THEN "gate" ELSE "reply"
  <2>1. /\ answering' = [answering EXCEPT ![c].pc = pc, ![c].footer = TRUE]
        /\ Stands(c, "guard") /\ rated' = rated
    BY <1>3 DEF PassGuard, rest
  <2>2. pc \in {"gate", "reply"}
    OBVIOUS
  <2> HIDE DEF pc
  <2>3. /\ OnlyAnswering(c) /\ answering'[c].pc = pc /\ answering'[c].id = answering[c].id
        /\ answering'[c].answer = answering[c].answer
    BY <2>1, <2>2, TurnFacts DEF TurnInv, TurnTypes, Turn, OnlyAnswering, TurnPcs
  <2>4. QED
    BY <1>1, <1>2, <2>1, <2>2, <2>3 DEF CallerFrame, Shows, Stands
<1>4. CASE RepairCode(c)
  <2>1. PICK pc \in {"persist", "fail", "reply"} : Goes(c, pc)
    BY <1>4 DEF RepairCode
  <2>2. pc \in TurnPcs /\ Stands(c, "gate") /\ rated' = rated
    BY <1>4 DEF RepairCode, rest, TurnPcs
  <2>3. /\ OnlyAnswering(c) /\ answering'[c].pc = pc /\ answering'[c].id = answering[c].id
        /\ answering'[c].answer = answering[c].answer
        /\ answering'[c].footer = answering[c].footer
    BY <2>1, <2>2, GoesTo DEF Stands
  <2>4. QED
    BY <1>1, <1>2, <2>2, <2>3 DEF CallerFrame, Shows, Stands
<1>5. CASE RecordFailure(c)
  <2>1. /\ Goes(c, "reply") /\ Stands(c, "fail")
        /\ rated' = rated \cup ({answering[c].id} \cap ToSet(thread))
    BY <1>5 DEF RecordFailure
  <2>2. rated' \subseteq rated \cup Ids
    BY <2>1, IdFacts
  <2>3. /\ OnlyAnswering(c) /\ answering'[c].pc = "reply" /\ answering'[c].id = answering[c].id
        /\ answering'[c].answer = answering[c].answer
        /\ answering'[c].footer = answering[c].footer
    BY <2>1, GoesTo DEF Stands, TurnPcs
  <2>4. QED
    BY <1>1, <1>2, <2>1, <2>2, <2>3 DEF CallerFrame, Shows, Stands
<1>6. QED
  BY <1>3, <1>4, <1>5

LEMMA PersistMoves ==
    ASSUME TurnInv, NEW c \in Answerers, PersistRepair(c)
    PROVE  /\ CallerFrame(c) /\ Stands(c, "persist") /\ Stands(c, "reply")'
           /\ answering'[c].id = answering[c].id /\ answering'[c].answer = "repaired"
           /\ answering[c].id \in Ids
           /\ \/ /\ responses' = [responses EXCEPT ![answering[c].id] = "repaired"]
              \/ responses' = responses /\ answering'[c].footer = FALSE
           /\ UNCHANGED <<thread, summary, marker, lock, born, shown, unmarked, rated>>
<1> DEFINE i == answering[c].id
           ok == Replaceable(i, answering[c].answer)
<1>1. /\ Stands(c, "persist")
      /\ responses' = IF ok THEN [responses EXCEPT ![i] = "repaired"] ELSE responses
      /\ answering' = [answering EXCEPT ![c].pc = "reply", ![c].answer = "repaired",
                                        ![c].footer = ok]
      /\ UNCHANGED <<thread, summary, marker, lock, born, shown, unmarked, rated>>
  BY DEF PersistRepair, rest
<1>2. i \in Ids
  BY <1>1, IdFacts DEF Stands, TurnInv, AnswersOwn, AnswerOwn, Shows
<1>3. ok \in BOOLEAN
  BY DEF Replaceable, Kept
<1> HIDE DEF ok
<1>4. /\ OnlyAnswering(c) /\ answering'[c].pc = "reply" /\ answering'[c].id = i
      /\ answering'[c].answer = "repaired" /\ answering'[c].footer = ok
  BY <1>1, <1>3, TurnRepairs DEF TurnPcs, Responses
<1>5. CallerFrame(c)
  BY <1>1, <1>4 DEF CallerFrame, TurnInv, TurnTypes
<1>6. CASE ok
  BY <1>1, <1>2, <1>4, <1>5, <1>6 DEF Stands
<1>7. CASE ~ ok
  BY <1>1, <1>2, <1>3, <1>4, <1>5, <1>7 DEF Stands
<1>8. QED
  BY <1>6, <1>7
\* Every step of a caller, in what the others see of it.
LEMMA StepFrame ==
    ASSUME TurnInv, NEW c \in Answerers, CallerStep(c)
    PROVE  /\ CallerFrame(c) /\ ThreadStep
           /\ FoldOverflow(c) \/ UNCHANGED <<summary, marker>>
           /\ responses' \in [Ids -> Responses \cup {NoResponse}]
           /\ shown' \in [Ids -> Responses \cup {NoResponse}]
           /\ rated' \subseteq Ids
<1>1. /\ responses \in [Ids -> Responses \cup {NoResponse}]
      /\ shown \in [Ids -> Responses \cup {NoResponse}] /\ rated \subseteq Ids
  BY DEF TurnInv, TurnTypes
<1>2. ASSUME NEW session \in BOOLEAN, BeginTurn(c, session)
      PROVE  /\ CallerFrame(c)
             /\ UNCHANGED <<thread, responses, summary, marker, born, shown, unmarked, rated>>
  BY <1>2, BeginMoves
<1>3. CASE \/ \E session \in BOOLEAN : BeginTurn(c, session)
           \/ ReadHistory(c) \/ FoldOverflow(c) \/ FoldFails(c)
  <2>1. /\ CallerFrame(c) /\ UNCHANGED <<thread, responses, born, shown, unmarked, rated>>
        /\ FoldOverflow(c) \/ UNCHANGED <<summary, marker>>
    BY <1>2, <1>3, HistoryMoves, FoldMoves, FoldFailMoves
  <2>2. QED
    BY <1>1, <2>1, SameThread
<1>4. CASE RouteToTool(c)
  <2>1. "tool" \in Responses
    BY DEF Responses
  <2>2. QED
    BY <1>1, <1>4, <2>1, RouteMoves
<1>5. CASE Answered(c)
  BY <1>1, <1>5, AnsweredMoves
<1>6. CASE AnswerFails(c) \/ DiscardRefusal(c) \/ ShowReply(c)
  <2>1. answering[c].answer \in Responses \cup {NoResponse}
    BY TurnFacts
  <2>2. QED
    BY <1>1, <1>6, <2>1, EndMoves
<1>7. CASE PassGuard(c) \/ RepairCode(c) \/ RecordFailure(c)
  BY <1>1, <1>7, GateMoves, SameThread
<1>8. CASE PersistRepair(c)
  <2>1. "repaired" \in Responses
    BY DEF Responses
  <2>2. QED
    BY <1>1, <1>8, <2>1, PersistMoves, SameThread
<1>9. QED
  BY <1>3, <1>4, <1>5, <1>6, <1>7, <1>8 DEF CallerStep

\* What a fold writes: the summary with the overflow at its end.
LEMMA FoldFacts ==
    ASSUME TurnInv, NEW c \in Answerers, FoldOverflow(c)
    PROVE  LET over == answering[c].over
           IN  /\ over \in Seq(Ids) /\ over # <<>> /\ Rises(over)
               /\ Len(over) \in DOMAIN over /\ Last(over) = over[Len(over)]
               /\ \A i \in DOMAIN over : over[i] \in Ids /\ over[i] <= Last(over)
               /\ Last(over) \in Ids /\ Last(over) <= born
               /\ summary' \in Seq(Ids)
               /\ ToSet(summary') = ToSet(summary) \cup ToSet(over)
<1> DEFINE over == answering[c].over
<1>1. over \in Seq(Ids) /\ summary \in Seq(Ids)
  BY TurnFacts, IdFacts
<1>2. over # <<>> /\ Rises(over) /\ Last(over) <= born /\ summary' = summary \o over
  BY FoldMoves DEF TurnInv, FoldFits, FoldFit
<1> HIDE DEF over
<1>3. /\ summary' \in Seq(Ids)
      /\ ToSet(summary') = ToSet(summary) \cup ToSet(over)
  BY <1>1, <1>2, JoinRises
<1>4. /\ Len(over) \in DOMAIN over /\ Last(over) = over[Len(over)]
      /\ \A i \in DOMAIN over : over[i] \in Ids /\ i \in 1..Len(over)
      /\ Len(over) \in Nat
  BY <1>1, <1>2 DEF Last
<1>5. ASSUME NEW i \in DOMAIN over
      PROVE  over[i] <= Last(over)
  <2>1. i = Len(over) \/ i < Len(over)
    BY <1>4
  <2>2. over[i] = Last(over) \/ over[i] < Last(over)
    BY <1>2, <1>4, <2>1 DEF Rises
  <2>3. over[i] \in Nat /\ Last(over) \in Nat
    BY <1>4, IdsAreNumbers
  <2>4. QED
    BY <2>2, <2>3
<1>6. QED
  BY <1>1, <1>2, <1>3, <1>4, <1>5 DEF over

LEMMA TypesKept ==
    ASSUME TurnInv, NEW c \in Answerers, CallerStep(c)
    PROVE  TurnTypes'
<1>1. CallerFrame(c) /\ ThreadStep
  BY StepFrame
<1>2. summary' \in Seq(Ids) /\ marker' \in Ids \cup {0}
  <2>1. CASE FoldOverflow(c)
    BY <2>1, FoldFacts, FoldMoves
  <2>2. CASE UNCHANGED <<summary, marker>>
    BY <2>2 DEF TurnInv, TurnTypes
  <2>3. QED
    BY <2>1, <2>2, StepFrame
<1>3. born' \in 0..MaxTurns
  BY <1>1, IdFacts DEF ThreadStep
<1>4. QED
  BY <1>1, <1>2, <1>3, StepFrame DEF TurnTypes, ThreadStep, CallerFrame, OnlyAnswering

LEMMA RisesKept ==
    ASSUME TurnInv, NEW c \in Answerers, CallerStep(c)
    PROVE  ThreadRises'
<1>1. /\ ThreadStep /\ born' \in Nat /\ born <= born' /\ born \in Nat
      /\ \A k \in ToSet(thread') : k \in Ids /\ k <= born'
  <2>1. ThreadStep /\ born' \in Nat /\ born <= born' /\ born \in Nat
    BY StepFrame, IdFacts DEF ThreadStep
  <2>2. \A k \in ToSet(thread') : k \in Ids
    BY <2>1 DEF ThreadStep, ToSet
  <2>3. QED
    BY <2>1, <2>2, IdFacts DEF ThreadStep
<1>2. \A i \in DOMAIN thread' : thread'[i] <= born'
  BY <1>1 DEF ToSet
<1>3. marker' <= born'
  <2>1. CASE FoldOverflow(c)
    BY <2>1, FoldFacts, FoldMoves
  <2>2. CASE UNCHANGED <<summary, marker>>
    BY <1>1, <2>2, IdFacts DEF TurnInv, ThreadRises
  <2>3. QED
    BY <2>1, <2>2, StepFrame
<1>4. QED
  BY <1>1, <1>2, <1>3 DEF ThreadRises, ThreadStep

LEMMA MarkerKept ==
    ASSUME TurnInv, NEW c \in Answerers, CallerStep(c)
    PROVE  MarkerFits'
<1>1. ThreadStep
  BY StepFrame
<1>2. CASE UNCHANGED <<summary, marker>>
  <2>1. marker \in Nat /\ born \in Nat /\ marker <= born
    BY IdFacts DEF TurnInv, ThreadRises
  <2>2. \A k \in ToSet(thread') : k <= born => k \in ToSet(thread)
    <3>1. \A k \in ToSet(thread') : k \in ToSet(thread) \/ (k > born /\ k <= born')
      BY <1>1 DEF ThreadStep
    <3>2. \A k \in ToSet(thread') : k \in Nat
      BY <1>1, IdFacts DEF ThreadStep, ToSet
    <3>3. QED
      BY <2>1, <3>1, <3>2
  <2>3. ASSUME marker \in ToSet(thread'), NEW k \in ToSet(thread'), k <= marker
        PROVE  k \in ToSet(summary)
    <3>1. k \in Nat
      BY <1>1, IdFacts DEF ThreadStep, ToSet
    <3>2. Kept(marker) /\ k \in ToSet(thread)
      BY <2>1, <2>2, <2>3, <3>1 DEF Kept
    <3>3. QED
      BY <2>3, <3>2 DEF TurnInv, MarkerFits
  <2>4. ASSUME ~ unmarked'
        PROVE  /\ Rises(summary) /\ \A i \in DOMAIN summary : summary[i] <= marker
               /\ marker = 0 \/ marker \in ToSet(thread')
    BY <1>1, <2>4 DEF TurnInv, MarkerFits, ThreadStep, Kept
  <2>5. QED
    BY <1>2, <2>3, <2>4 DEF MarkerFits, Kept
<1>3. CASE FoldOverflow(c)
  <2> DEFINE over == answering[c].over
  <2>1. /\ over \in Seq(Ids) /\ over # <<>> /\ Rises(over) /\ Len(over) \in DOMAIN over
        /\ \A i \in DOMAIN over : over[i] \in Ids /\ over[i] <= Last(over)
        /\ Last(over) \in Ids /\ Last(over) = over[Len(over)]
        /\ summary' \in Seq(Ids)
        /\ ToSet(summary') = ToSet(summary) \cup ToSet(over)
    BY <1>3, FoldFacts
  <2>2. /\ summary' = summary \o over /\ marker' = Last(over) /\ thread' = thread
        /\ unmarked' = unmarked /\ Stands(c, "fold")
    BY <1>3, FoldMoves
  <2>3. /\ \A k \in ToSet(thread) : k <= Last(over) => k \in ToSet(over) \cup ToSet(summary)
        /\ ~ unmarked => Kept(Last(over)) /\ \A i \in DOMAIN over : marker < over[i]
    BY <2>2 DEF TurnInv, FoldFits, FoldFit
  <2> HIDE DEF over
  <2>4. ASSUME ~ unmarked
        PROVE  Rises(summary') /\ \A i \in DOMAIN summary' : summary'[i] <= Last(over)
    <3>1. Rises(summary) /\ \A i \in DOMAIN summary : summary[i] <= marker
      BY <2>4 DEF TurnInv, MarkerFits
    <3>2. summary \in Seq(Ids) /\ marker \in Nat /\ \A i \in DOMAIN summary : summary[i] \in Nat
      BY IdFacts
    <3>3. \A i \in DOMAIN over : over[i] \in Nat /\ marker < over[i]
      BY <2>1, <2>3, <2>4, IdsAreNumbers
    <3>4. \A i \in DOMAIN summary : \A j \in DOMAIN over : summary[i] < over[j]
      BY <3>1, <3>2, <3>3
    <3>5. Rises(summary')
      BY <2>1, <2>2, <3>1, <3>2, <3>4, JoinRises
    <3>6. \A k \in ToSet(summary) : k <= Last(over)
      <4>1. Last(over) \in Nat /\ \A i \in DOMAIN summary : summary[i] < Last(over)
        BY <2>1, <3>3, <3>4
      <4>2. \A i \in DOMAIN summary : summary[i] <= Last(over)
        BY <3>2, <4>1
      <4>3. QED
        BY <4>2 DEF ToSet
    <3>7. \A k \in ToSet(over) : k <= Last(over)
      BY <2>1 DEF ToSet
    <3>8. \A i \in DOMAIN summary' : summary'[i] \in ToSet(summary')
      BY DEF ToSet
    <3>9. QED
      BY <2>1, <3>5, <3>6, <3>7, <3>8
  <2>5. QED
    BY <2>1, <2>2, <2>3, <2>4 DEF MarkerFits, Kept
<1>4. QED
  BY <1>2, <1>3, StepFrame

\* The one that holds the session's turn finds what it read.
LEMMA OthersFold ==
    ASSUME TurnInv, NEW c \in Answerers, CallerStep(c), NEW d \in Answerers \ {c}
    PROVE  FoldFit(d)'
<1>1. /\ answering'[d] = answering[d] /\ (lock = d => lock' = d) /\ ThreadStep
  BY StepFrame DEF CallerFrame, OnlyAnswering
<1>2. FoldFit(d)
  BY DEF TurnInv, FoldFits
<1>3. /\ Stands(d, "idle")' => answering'[d].read = <<>>
      /\ (Stands(d, "history") \/ Stands(d, "fold"))' => lock' = d
      /\ Stands(d, "answer")' => ToSet(answering'[d].read) \subseteq answering'[d].sent
  BY <1>1, <1>2 DEF FoldFit, Stands
<1>4. ASSUME Stands(d, "fold")
      PROVE  LET over == answering[d].over
             IN  /\ over # <<>> /\ Rises(over) /\ Last(over) <= born'
                 /\ \A k \in ToSet(thread') :
                       k <= Last(over) => k \in ToSet(over) \cup ToSet(summary')
                 /\ ToSet(answering[d].read) \subseteq answering[d].sent \cup ToSet(over)
                 /\ ~ unmarked' => /\ Last(over) \in ToSet(thread')
                                   /\ \A i \in DOMAIN over : marker' < over[i]
  <2> DEFINE over == answering[d].over
  <2>1. lock = d
    BY <1>2, <1>4 DEF FoldFit
  <2>2. UNCHANGED <<summary, marker>>
    <3>1. ~ FoldOverflow(c)
      BY <2>1, FoldMoves
    <3>2. QED
      BY <3>1, StepFrame
  <2>3. /\ over # <<>> /\ Rises(over) /\ Last(over) <= born
        /\ \A k \in ToSet(thread) : k <= Last(over) => k \in ToSet(over) \cup ToSet(summary)
        /\ ToSet(answering[d].read) \subseteq answering[d].sent \cup ToSet(over)
        /\ ~ unmarked => /\ Kept(Last(over)) /\ \A i \in DOMAIN over : marker < over[i]
    BY <1>2, <1>4 DEF FoldFit
  <2>4. Last(over) \in Nat
    <3>1. over \in Seq(Ids)
      BY TurnFacts
    <3> HIDE DEF over
    <3>2. Last(over) \in Ids
      BY <2>3, <3>1 DEF Last
    <3>3. QED
      BY <3>2, IdsAreNumbers
  <2>5. \A k \in Ids \cap ToSet(thread) :
           k = Last(over) => k \in ToSet(thread') \/ unmarked'
    BY <1>1, <1>4 DEF ThreadStep
  <2>6. Kept(Last(over)) => Last(over) \in ToSet(thread') \/ unmarked'
    BY <2>5, IdFacts DEF Kept
  <2> HIDE DEF over
  <2>7. born \in Nat /\ born' \in Nat /\ born <= born'
    BY <1>1, IdFacts DEF ThreadStep
  <2>8. ASSUME NEW k \in ToSet(thread'), k <= Last(over)
        PROVE  k \in ToSet(over) \cup ToSet(summary)
    <3>1. k \in ToSet(thread) \/ k > born
      BY <1>1 DEF ThreadStep
    <3>2. k \in Nat
      <4>1. \A j \in DOMAIN thread' : thread'[j] \in Ids
        BY <1>1 DEF ThreadStep
      <4>2. QED
        BY <4>1, IdsAreNumbers DEF ToSet
    <3>3. ~ (k > born)
      BY <2>3, <2>4, <2>7, <2>8, <3>2
    <3>4. k \in ToSet(thread)
      BY <3>1, <3>3
    <3>5. QED
      BY <2>3, <2>8, <3>4
  <2>9. ~ unmarked' => /\ Last(over) \in ToSet(thread')
                       /\ \A i \in DOMAIN over : marker < over[i]
    BY <1>1, <2>3, <2>6 DEF ThreadStep
  <2>10. Last(over) <= born'
    BY <2>3, <2>4, <2>7
  <2>11. QED
    BY <2>2, <2>3, <2>8, <2>9, <2>10 DEF over
<1>5. Stands(d, "fold")' => Stands(d, "fold")
  BY <1>1 DEF Stands
<1>6. QED
  BY <1>1, <1>3, <1>4, <1>5 DEF FoldFit, Kept

LEMMA OwnFold ==
    ASSUME TurnInv, NEW c \in Answerers, CallerStep(c)
    PROVE  FoldFit(c)'
<1>1. ToSet(<<>>) = {}
  BY DEF ToSet
<1>2. CASE \E session \in BOOLEAN : BeginTurn(c, session)
  <2>1. /\ answering'[c].read = <<>>
        /\ \/ Stands(c, "history")' /\ lock' = c
           \/ Stands(c, "answer")'
    BY <1>2, BeginMoves
  <2>2. QED
    BY <1>1, <2>1 DEF FoldFit, Stands
<1>3. CASE RouteToTool(c)
  <2>1. answering' = answering /\ Stands(c, "idle") /\ answering[c].read = <<>>
    BY <1>3, RouteMoves DEF TurnInv, FoldFits, FoldFit
  <2>2. QED
    BY <2>1 DEF FoldFit, Stands
<1>4. CASE ReadHistory(c) \/ FoldOverflow(c) \/ FoldFails(c)
  BY <1>4, HistoryMoves, FoldMoves, FoldFailMoves
<1>5. CASE Answered(c) \/ PersistRepair(c)
  <2>1. answering'[c].pc \in {"guard", "reply"}
    BY <1>5, AnsweredMoves, PersistMoves DEF Stands
  <2>2. QED
    BY <2>1 DEF FoldFit, Stands
<1>6. CASE AnswerFails(c) \/ DiscardRefusal(c) \/ ShowReply(c)
  <2>1. answering'[c] = NoTurn
    BY <1>6, EndMoves
  <2>2. QED
    BY <2>1 DEF FoldFit, Stands, NoTurn
<1>7. CASE PassGuard(c) \/ RepairCode(c) \/ RecordFailure(c)
  <2>1. answering'[c].pc \in Shows
    BY <1>7, GateMoves
  <2>2. QED
    BY <2>1 DEF FoldFit, Stands, Shows
<1>8. QED
  BY <1>2, <1>3, <1>4, <1>5, <1>6, <1>7 DEF CallerStep

\* What a step does to the responses that are kept and to those that were
\* shown: to a new one, or to the caller's own.
LEMMA AnswerFrame ==
    ASSUME TurnInv, NEW c \in Answerers, CallerStep(c)
    PROVE  LET own == answering[c].pc \in Shows
               id == answering[c].id
           IN  /\ \A i \in Ids : \/ responses'[i] = responses[i]
                                 \/ i = born + 1
                                 \/ own /\ i = id /\ shown' = shown
               /\ \A i \in Ids : \/ shown'[i] = shown[i]
                                 \/ /\ own /\ i = id /\ answering[c].footer = TRUE
                                    /\ shown'[i] = answering[c].answer
                                    /\ UNCHANGED <<thread, responses>>
               /\ answering'[c].pc \in Shows =>
                     \/ own /\ answering'[c].id = id
                     \/ answering'[c].id = born + 1
<1>1. /\ responses \in [Ids -> Responses \cup {NoResponse}]
      /\ shown \in [Ids -> Responses \cup {NoResponse}]
  BY DEF TurnInv, TurnTypes
<1>2. CASE \E session \in BOOLEAN : BeginTurn(c, session)
  BY <1>2, BeginMoves DEF Stands, Shows
<1>3. CASE RouteToTool(c)
  <2>1. /\ answering' = answering /\ Stands(c, "idle") /\ shown' = shown
        /\ responses' = [responses EXCEPT ![born + 1] = "tool"]
    BY <1>3, RouteMoves
  <2>2. \A i \in Ids : responses'[i] = responses[i] \/ i = born + 1
    BY <1>1, <2>1
  <2>3. QED
    BY <2>1, <2>2 DEF Stands, Shows
<1>4. CASE ReadHistory(c) \/ FoldOverflow(c) \/ FoldFails(c)
  <2>1. /\ UNCHANGED <<responses, shown>>
        /\ answering'[c].pc \in {"answer", "fold"}
    BY <1>4, HistoryMoves, FoldMoves, FoldFailMoves DEF Stands
  <2>2. QED
    BY <2>1 DEF Shows
<1>5. CASE Answered(c)
  <2>1. /\ shown' = shown /\ answering'[c].id = born + 1
        /\ responses' = [responses EXCEPT ![born + 1] = answering'[c].answer]
    BY <1>5, AnsweredMoves
  <2>2. \A i \in Ids : responses'[i] = responses[i] \/ i = born + 1
    BY <1>1, <2>1
  <2>3. QED
    BY <2>1, <2>2
<1>6. CASE AnswerFails(c) \/ DiscardRefusal(c) \/ ShowReply(c)
  <2>1. /\ answering'[c] = NoTurn /\ responses' = responses
        /\ \/ shown' = shown
           \/ /\ Stands(c, "reply") /\ answering[c].footer = TRUE
              /\ thread' = thread
              /\ shown' = [shown EXCEPT ![answering[c].id] = answering[c].answer]
    BY <1>6, EndMoves
  <2>2. \A i \in Ids : \/ shown'[i] = shown[i]
                       \/ /\ Stands(c, "reply") /\ i = answering[c].id
                          /\ answering[c].footer = TRUE
                          /\ shown'[i] = answering[c].answer
                          /\ thread' = thread
    BY <1>1, <2>1
  <2>3. QED
    BY <2>1, <2>2 DEF Stands, Shows, NoTurn
<1>7. CASE PassGuard(c) \/ RepairCode(c) \/ RecordFailure(c)
  BY <1>7, GateMoves
<1>8. CASE PersistRepair(c)
  <2>1. /\ Stands(c, "persist") /\ answering'[c].id = answering[c].id /\ shown' = shown
        /\ \/ responses' = [responses EXCEPT ![answering[c].id] = "repaired"]
           \/ responses' = responses
    BY <1>8, PersistMoves
  <2>2. \A i \in Ids : responses'[i] = responses[i] \/ i = answering[c].id
    BY <1>1, <2>1
  <2>3. QED
    BY <2>1, <2>2 DEF Stands, Shows
<1>9. QED
  BY <1>2, <1>3, <1>4, <1>5, <1>6, <1>7, <1>8 DEF CallerStep

\* An id that was there before is in the thread only if it was.
LEMMA OldKept ==
    ASSUME TurnInv, ThreadStep, NEW i \in Ids, i <= born, i \in ToSet(thread')
    PROVE  Kept(i)
<1>1. i \in Nat /\ born \in Nat
  BY IdFacts
<1>2. i \in ToSet(thread) \/ i > born
  BY DEF ThreadStep, Kept
<1>3. QED
  BY <1>1, <1>2 DEF Kept

LEMMA ShownKept ==
    ASSUME TurnInv, NEW c \in Answerers, CallerStep(c), NEW i \in Ids
    PROVE  ShownFit(i)'
<1> SUFFICES ASSUME shown'[i] # NoResponse
             PROVE  i <= born' /\ (Kept(i)' => responses'[i] = shown'[i])
  BY DEF ShownFit, Kept
<1>1. /\ ThreadStep /\ i \in Nat /\ born \in Nat /\ born' \in Nat /\ born <= born'
  BY StepFrame, IdFacts DEF ThreadStep
<1>2. ShownFit(i)
  BY DEF TurnInv, AnswersOwn
<1>3. AnswerOwn(c)
  BY DEF TurnInv, AnswersOwn
<1>4. CASE shown'[i] = shown[i]
  <2>1. i <= born /\ (Kept(i) => responses[i] = shown[i])
    BY <1>2, <1>4 DEF ShownFit
  <2>2. i # born + 1
    BY <1>1, <2>1
  <2>3. ~ (answering[c].pc \in Shows /\ i = answering[c].id)
    BY <1>3, <1>4 DEF AnswerOwn
  <2>4. responses'[i] = responses[i]
    BY <2>2, <2>3, AnswerFrame
  <2>5. QED
    BY <1>1, <1>4, <2>1, <2>4, OldKept DEF Kept
<1>5. CASE ~ (shown'[i] = shown[i])
  <2>1. /\ answering[c].pc \in Shows /\ i = answering[c].id /\ answering[c].footer = TRUE
        /\ shown'[i] = answering[c].answer
        /\ UNCHANGED <<thread, responses>>
    BY <1>5, AnswerFrame
  <2>2. i \in 1..born /\ (Kept(i) => responses[i] = answering[c].answer)
    BY <1>3, <2>1 DEF AnswerOwn
  <2>3. QED
    BY <1>1, <2>1, <2>2 DEF Kept
<1>6. QED
  BY <1>4, <1>5

LEMMA OthersAnswer ==
    ASSUME TurnInv, NEW c \in Answerers, CallerStep(c), NEW d \in Answerers \ {c}
    PROVE  AnswerOwn(d)'
<1>1. /\ ThreadStep /\ answering'[d] = answering[d] /\ born \in Nat /\ born' \in Nat
      /\ \A e \in Answerers \ {c} : answering'[e] = answering[e]
      /\ born <= born'
  BY StepFrame, IdFacts DEF ThreadStep, CallerFrame, OnlyAnswering
<1>2. AnswerOwn(d) /\ AnswerOwn(c)
  BY DEF TurnInv, AnswersOwn
<1>3. ASSUME answering[d].pc \in Shows
      PROVE  LET i == answering[d].id
             IN  /\ i \in 1..born' /\ shown'[i] = NoResponse
                 /\ answering[d].footer \/ Stands(d, "guard") =>
                       (i \in ToSet(thread') => responses'[i] = answering[d].answer)
                 /\ \A e \in Answerers \ {d} :
                       answering'[e].pc \in Shows => answering'[e].id # i
  <2> DEFINE i == answering[d].id
  <2>1. /\ i \in 1..born /\ shown[i] = NoResponse
        /\ answering[d].footer \/ Stands(d, "guard") =>
              (Kept(i) => responses[i] = answering[d].answer)
        /\ \A e \in Answerers \ {d} : answering[e].pc \in Shows => answering[e].id # i
    BY <1>2, <1>3 DEF AnswerOwn
  <2> HIDE DEF i
  <2>2. i \in Ids /\ i # born + 1 /\ i \in 1..born' /\ i <= born
    BY <1>1, <2>1, IdFacts
  <2>3. ~ (answering[c].pc \in Shows /\ i = answering[c].id)
    BY <2>1
  <2>4. responses'[i] = responses[i] /\ shown'[i] = shown[i]
    BY <2>2, <2>3, AnswerFrame
  <2>5. i \in ToSet(thread') => Kept(i)
    BY <1>1, <2>2, OldKept DEF Kept
  <2>6. ASSUME NEW e \in Answerers \ {d}, answering'[e].pc \in Shows
        PROVE  answering'[e].id # i
    <3>1. CASE e = c
      BY <2>2, <2>3, <2>6, <3>1, AnswerFrame
    <3>2. CASE e # c
      BY <1>1, <2>1, <2>6, <3>2
    <3>3. QED
      BY <3>1, <3>2
  <2>7. QED
    BY <2>1, <2>2, <2>4, <2>5, <2>6 DEF i
<1>4. QED
  BY <1>1, <1>3 DEF AnswerOwn, Stands, Kept

LEMMA OwnAnswer ==
    ASSUME TurnInv, NEW c \in Answerers, CallerStep(c)
    PROVE  AnswerOwn(c)'
<1>1. /\ born \in Nat /\ AnswerOwn(c)
      /\ responses \in [Ids -> Responses \cup {NoResponse}]
      /\ \A d \in Answerers \ {c} : answering'[d] = answering[d]
  BY IdFacts, StepFrame
  DEF TurnInv, AnswersOwn, TurnTypes, CallerFrame, OnlyAnswering
<1>2. CASE ~ (answering'[c].pc \in Shows)
  BY <1>2 DEF AnswerOwn
<1>3. CASE Answered(c)
  <2>1. /\ Stands(c, "guard")' /\ born' = born + 1 /\ born + 1 \in Ids
        /\ answering'[c].id = born + 1 /\ shown' = shown
        /\ responses' = [responses EXCEPT ![born + 1] = answering'[c].answer]
    BY <1>3, AnsweredMoves
  <2>2. shown[born + 1] = NoResponse
    BY <1>1, <2>1 DEF TurnInv, AnswersOwn, ShownFit
  <2>3. responses'[born + 1] = answering'[c].answer /\ born + 1 \in 1..born'
    BY <1>1, <2>1
  <2>4. \A d \in Answerers \ {c} :
           answering'[d].pc \in Shows => answering'[d].id # born + 1
    <3>1. \A d \in Answerers \ {c} :
             answering[d].pc \in Shows => answering[d].id \in 1..born
      BY DEF TurnInv, AnswersOwn, AnswerOwn
    <3>2. QED
      BY <1>1, <3>1
  <2>5. QED
    BY <2>1, <2>2, <2>3, <2>4 DEF AnswerOwn
<1>4. ASSUME answering[c].pc \in Shows, answering'[c].id = answering[c].id,
             UNCHANGED <<thread, born, shown>>, ~ Stands(c, "guard")',
             answering'[c].footer =>
                (Kept(answering[c].id) => responses'[answering[c].id] = answering'[c].answer)
      PROVE  AnswerOwn(c)'
  <2> DEFINE i == answering[c].id
  <2>1. /\ i \in 1..born /\ shown[i] = NoResponse
        /\ \A d \in Answerers \ {c} : answering[d].pc \in Shows => answering[d].id # i
    BY <1>1, <1>4 DEF AnswerOwn
  <2>2. \A d \in Answerers \ {c} : answering'[d].pc \in Shows => answering'[d].id # i
    BY <1>1, <2>1
  <2> HIDE DEF i
  <2>3. /\ answering'[c].id = i /\ i \in 1..born' /\ shown'[i] = NoResponse
        /\ answering'[c].footer => (i \in ToSet(thread') => responses'[i] = answering'[c].answer)
        /\ answering'[c].pc # "guard"
    BY <1>4, <2>1 DEF i, Kept, Stands
  <2>4. QED
    BY <2>2, <2>3 DEF AnswerOwn, Kept, Stands
<1>5. CASE PassGuard(c) \/ RepairCode(c) \/ RecordFailure(c)
  <2>1. /\ answering[c].pc \in Shows
        /\ answering'[c].pc \in Shows \ {"guard"}
        /\ answering'[c].id = answering[c].id /\ answering'[c].answer = answering[c].answer
        /\ Stands(c, "guard") \/ answering'[c].footer = answering[c].footer
        /\ UNCHANGED <<thread, responses, born, shown>>
    BY <1>5, GateMoves
  <2>2. answering'[c].footer =>
           (Kept(answering[c].id) => responses[answering[c].id] = answering[c].answer)
    BY <1>1, <2>1 DEF AnswerOwn
  <2>3. ~ Stands(c, "guard")'
    BY <2>1 DEF Stands
  <2>4. QED
    BY <1>4, <2>1, <2>2, <2>3
<1>6. CASE PersistRepair(c)
  <2>1. /\ Stands(c, "persist") /\ Stands(c, "reply")'
        /\ answering'[c].id = answering[c].id /\ answering'[c].answer = "repaired"
        /\ answering[c].id \in Ids
        /\ \/ /\ responses' = [responses EXCEPT ![answering[c].id] = "repaired"]
           \/ responses' = responses /\ answering'[c].footer = FALSE
        /\ UNCHANGED <<thread, born, shown>>
    BY <1>6, PersistMoves
  <2>2. answering'[c].footer => responses'[answering[c].id] = "repaired"
    BY <1>1, <2>1
  <2>3. answering[c].pc \in Shows /\ ~ Stands(c, "guard")'
    BY <2>1 DEF Stands, Shows
  <2>4. QED
    BY <1>4, <2>1, <2>2, <2>3
<1>7. CASE /\ ~ Answered(c) /\ ~ PersistRepair(c)
           /\ ~ (PassGuard(c) \/ RepairCode(c) \/ RecordFailure(c))
  <2>1. CASE \E session \in BOOLEAN : BeginTurn(c, session)
    BY <1>2, <2>1, BeginMoves DEF Stands, Shows
  <2>2. CASE RouteToTool(c)
    BY <1>2, <2>2, RouteMoves DEF Stands, Shows
  <2>3. CASE ReadHistory(c) \/ FoldOverflow(c) \/ FoldFails(c)
    BY <1>2, <2>3, HistoryMoves, FoldMoves, FoldFailMoves DEF Stands, Shows
  <2>4. CASE AnswerFails(c) \/ DiscardRefusal(c) \/ ShowReply(c)
    <3>1. answering'[c] = NoTurn
      BY <2>4, EndMoves
    <3>2. ~ (answering'[c].pc \in Shows)
      BY <3>1 DEF Shows, NoTurn
    <3>3. QED
      BY <1>2, <3>2
  <2>5. QED
    BY <1>7, <2>1, <2>2, <2>3, <2>4 DEF CallerStep
<1>8. QED
  BY <1>3, <1>5, <1>6, <1>7

LEMMA CallerSteps ==
    ASSUME TurnInv, NEW c \in Answerers, CallerStep(c)
    PROVE  TurnInv'
<1>1. FoldFits'
  <2>1. \A d \in Answerers : FoldFit(d)'
    BY OthersFold, OwnFold
  <2>2. QED
    BY <2>1 DEF FoldFits
<1>2. AnswersOwn'
  <2>1. \A d \in Answerers : AnswerOwn(d)'
    BY OthersAnswer, OwnAnswer
  <2>2. \A i \in Ids : ShownFit(i)'
    BY ShownKept
  <2>3. QED
    BY <2>1, <2>2 DEF AnswersOwn
<1>3. QED
  BY <1>1, <1>2, TypesKept, RisesKept, MarkerKept DEF TurnInv

\* An outcome that others record changes nothing of this.
LEMMA RatingSteps ==
    ASSUME TurnInv, UNCHANGED <<thread, responses, summary, marker, lock, answering, born,
                                shown, unmarked>>,
           rated' \subseteq Ids
    PROVE  TurnInv'
<1>1. TurnTypes' /\ ThreadRises' /\ MarkerFits'
  BY DEF TurnInv, TurnTypes, ThreadRises, MarkerFits, Kept
<1>2. FoldFits'
  BY DEF TurnInv, FoldFits, FoldFit, Stands, Kept
<1>3. AnswersOwn'
  BY DEF TurnInv, AnswersOwn, ShownFit, AnswerOwn, Stands, Kept
<1>4. QED
  BY <1>1, <1>2, <1>3 DEF TurnInv

LEMMA TurnSteps == TurnInv /\ [ModelTurnsNext]_modelTurnVars => TurnInv'
<1> SUFFICES ASSUME TurnInv, [ModelTurnsNext]_modelTurnVars
             PROVE  TurnInv'
  OBVIOUS
<1>1. ASSUME NEW c \in Answerers, CallerStep(c)
      PROVE  TurnInv'
  BY <1>1, CallerSteps
<1>2. ASSUME NEW i \in Ids, RecordRating(i)
      PROVE  TurnInv'
  <2>1. rated' \subseteq Ids
    BY <1>2 DEF RecordRating, TurnInv, TurnTypes
  <2>2. QED
    BY <1>2, <2>1, RatingSteps DEF RecordRating
<1>3. CASE UNCHANGED modelTurnVars
  <2>1. rated' \subseteq Ids
    BY <1>3 DEF modelTurnVars, TurnInv, TurnTypes
  <2>2. QED
    BY <1>3, <2>1, RatingSteps DEF modelTurnVars
<1>4. QED
  BY <1>1, <1>2, <1>3 DEF ModelTurnsNext, CallerStep

LEMMA TurnStarts == ModelTurnsInit => TurnInv
<1> SUFFICES ASSUME ModelTurnsInit
             PROVE  TurnInv
  OBVIOUS
<1>1. <<>> \in Seq(Ids) /\ ToSet(<<>>) = {} /\ DOMAIN <<>> = {}
  BY DEF ToSet
<1>2. NoTurn \in Turn
  BY <1>1 DEF NoTurn, Turn, TurnPcs
<1>3. TurnTypes
  <2>1. answering \in [Answerers -> Turn]
    BY <1>2 DEF ModelTurnsInit
  <2>2. born \in 0..MaxTurns
    BY TurnsOfModelAssumption DEF ModelTurnsInit
  <2>3. QED
    BY <1>1, <2>1, <2>2 DEF ModelTurnsInit, TurnTypes
<1>4. ThreadRises /\ MarkerFits
  BY <1>1 DEF ModelTurnsInit, ThreadRises, MarkerFits, Rises, Kept
<1>5. \A c \in Answerers : answering[c].pc = "idle" /\ answering[c].read = <<>>
  BY DEF ModelTurnsInit, NoTurn
<1>6. FoldFits
  BY <1>5 DEF FoldFits, FoldFit, Stands
<1>7. AnswersOwn
  BY <1>5 DEF AnswersOwn, ShownFit, AnswerOwn, Shows, ModelTurnsInit
<1>8. QED
  BY <1>3, <1>4, <1>6, <1>7 DEF TurnInv

LEMMA TurnInvSound == TurnInv => ModelTurnsTypeOK /\ ModelTurnsSound
<1> SUFFICES ASSUME TurnInv
             PROVE  ModelTurnsTypeOK /\ ModelTurnsSound
  OBVIOUS
<1>1. ModelTurnsTypeOK
  BY DEF TurnInv, TurnTypes, ModelTurnsTypeOK
<1>2. FoldedOnce
  <2> SUFFICES ASSUME ~ unmarked, NEW i \in DOMAIN summary, NEW j \in DOMAIN summary,
                      summary[i] = summary[j]
               PROVE  i = j
    BY DEF FoldedOnce, IsInjective
  <2>1. summary \in Seq(Ids) /\ Rises(summary)
    BY IdFacts DEF TurnInv, MarkerFits
  <2>2. i \in Nat /\ j \in Nat /\ summary[i] \in Nat
    BY <2>1, IdsAreNumbers
  <2>3. ~ (summary[i] < summary[j]) /\ ~ (summary[j] < summary[i])
    BY <2>2
  <2>4. QED
    BY <2>1, <2>2, <2>3 DEF Rises
<1>3. HistoryIsWhole
  BY DEF TurnInv, FoldFits, FoldFit, HistoryIsWhole
<1>4. RatedAsShown
  BY DEF TurnInv, AnswersOwn, ShownFit, RatedAsShown
<1>5. QED
  BY <1>1, <1>2, <1>3, <1>4 DEF ModelTurnsSound

\* However the turns of a session, answers without its lock, discarded
\* refusals, repairs and ratings interleave: the summary holds no turn twice, an
\* answer is given what was said before it, and an id stands for what was shown
\* above it (server.py: _session_history_messages, _sonder_impl_serialized,
\* memory_store.py: replace_interaction_response_cas).
THEOREM TurnsStaySound == ModelTurnsSpec => [](ModelTurnsTypeOK /\ ModelTurnsSound)
<1>1. ModelTurnsInit => TurnInv
  BY TurnStarts
<1>2. TurnInv /\ [ModelTurnsNext]_modelTurnVars => TurnInv'
  BY TurnSteps
<1>3. TurnInv => ModelTurnsTypeOK /\ ModelTurnsSound
  BY TurnInvSound
<1>4. QED
  BY <1>1, <1>2, <1>3, PTL DEF ModelTurnsSpec

(***************************************************************************)
(* The chat screen.  A thread holds a reply only after its question, no    *)
(* placeholder, and every exchange that came to its end in it; of a call   *)
(* that is awaited, the placeholder is the last message, unless the user   *)
(* has left.                                                               *)
(***************************************************************************)
ThreadRows == [id : Threads, messages : Seq(Message)]
SendCalls == [n : Nat, at : {"idle", "asked", "saving"}]
SendRows == [home : Threads, left : BOOLEAN, ended : BOOLEAN]

\* The predicates below take what is being said and asked as arguments, c for
\* send and q for sends.
FollowsAt(ms, i, q) ==
    /\ ms[i].of \in DOMAIN q
    /\ ms[i].role = "assistant" /\ ~ q[ms[i].of].left =>
          i > 1 /\ ms[i - 1] = Question(ms[i].of)
Follows(ms, q) == \A i \in DOMAIN ms : FollowsAt(ms, i, q)

HasReply(ms, n) ==
    \E i \in DOMAIN ms : i + 1 \in DOMAIN ms /\ ms[i] = Question(n) /\ ~ ms[i + 1].pending

\* Questions whose exchange came to its end where it was asked.
Exchanged(n, c, q) ==
    /\ n \in DOMAIN q /\ ~ q[n].left
    /\ q[n].ended \/ (c.at = "saving" /\ c.n = n)
KeepsAll(ms, id, c, q) ==
    \A n \in DOMAIN q : Exchanged(n, c, q) /\ q[n].home = id => HasReply(ms, n)

RowFits(t, c, q) ==
    /\ t \in ThreadRows /\ Follows(t.messages, q)
    /\ \A i \in DOMAIN t.messages : ~ t.messages[i].pending
    /\ KeepsAll(t.messages, t.id, c, q)

UniqueIds(list) == \A i, j \in DOMAIN list : list[i].id = list[j].id => i = j
ListFits(list, c, q) ==
    /\ list \in Seq(ThreadRows) /\ UniqueIds(list)
    /\ \A i \in DOMAIN list : RowFits(list[i], c, q)

ShownMessages(ms, id, c, q) ==
    /\ ms \in Seq(Message) /\ Follows(ms, q) /\ KeepsAll(ms, id, c, q)
    /\ \A i \in DOMAIN ms : ms[i].pending => i = Len(ms) /\ c.at = "asked"

\* The placeholder of what is awaited, below its question.
AwaitsReply(ms, n) ==
    LET k == Len(ms)
    IN  k - 1 \in DOMAIN ms /\ ms[k - 1] = Question(n) /\ ms[k] = Placeholder(n)

ScreenFits(s, c, q) ==
    /\ s \in [threads : Seq(ThreadRows), current : Threads, messages : Seq(Message),
              sending : BOOLEAN, gone : SUBSET Threads]
    /\ ListFits(s.threads, c, q) /\ s.current \in Listed(s.threads)
    /\ ShownMessages(s.messages, s.current, c, q)
    /\ s.sending = (c.at # "idle")
    /\ \A n \in DOMAIN q : q[n].home \in Listed(s.threads) \cup s.gone
    /\ (c.at = "asked" /\ ~ q[c.n].left) =>
          s.current = q[c.n].home /\ AwaitsReply(s.messages, c.n)

CallFits(c, q) ==
    /\ c \in SendCalls /\ q \in Seq(SendRows) /\ Len(q) <= MaxSends
    /\ IF c.at = "idle" THEN c.n = 0 ELSE c.n \in DOMAIN q /\ ~ q[c.n].ended

StoredFits(list, threads) == list = <<>> \/ list = Capped(threads)

ChatInv ==
    CallFits(send, sends) /\ ScreenFits(screen, send, sends)
    /\ StoredFits(stored, screen.threads)


-----------------------------------------------------------------------------
\* What is said and asked moves on: no question is taken back, one that was left stays
\* left, and no exchange comes to its end.
MovesOn(c, q, d, p) ==
    /\ DOMAIN q \subseteq DOMAIN p
    /\ \A n \in DOMAIN q : p[n].home = q[n].home /\ (q[n].left => p[n].left)
    /\ \A n \in DOMAIN p : Exchanged(n, d, p) => Exchanged(n, c, q)

LEMMA FollowsOn ==
    ASSUME NEW c, NEW q, NEW d, NEW p, DOMAIN q \subseteq DOMAIN p,
           \A n \in DOMAIN q : q[n].left => p[n].left,
           NEW ms, Follows(ms, q)
    PROVE  Follows(ms, p)
BY DEF Follows, FollowsAt

LEMMA RowOn ==
    ASSUME NEW c, NEW q, NEW d, NEW p, MovesOn(c, q, d, p), NEW t, RowFits(t, c, q)
    PROVE  RowFits(t, d, p)
<1>1. Follows(t.messages, p)
  BY FollowsOn DEF MovesOn, RowFits
<1>2. KeepsAll(t.messages, t.id, d, p)
  BY DEF MovesOn, RowFits, KeepsAll, Exchanged
<1>3. QED
  BY <1>1, <1>2 DEF RowFits

LEMMA ListOn ==
    ASSUME NEW c, NEW q, NEW d, NEW p, MovesOn(c, q, d, p), NEW list, ListFits(list, c, q)
    PROVE  ListFits(list, d, p)
BY RowOn DEF ListFits

LEMMA ListRow ==
    ASSUME NEW c, NEW q, NEW list, ListFits(list, c, q), NEW id \in Listed(list)
    PROVE  /\ RowOf(list, id) \in DOMAIN list /\ list[RowOf(list, id)].id = id
           /\ RowFits(ThreadOf(list, id), c, q) /\ ThreadOf(list, id).id = id
<1>1. RowOf(list, id) \in DOMAIN list /\ list[RowOf(list, id)].id = id
  BY DEF Listed, RowOf
<1>2. QED
  BY <1>1 DEF ThreadOf, ListFits

LEMMA ListCons ==
    ASSUME NEW c, NEW q, NEW list, ListFits(list, c, q), NEW x, RowFits(x, c, q),
           x.id \notin Listed(list)
    PROVE  /\ ListFits(<<x>> \o list, c, q)
           /\ Listed(<<x>> \o list) = {x.id} \cup Listed(list)
<1> DEFINE new == <<x>> \o list
<1>1. /\ list \in Seq(ThreadRows) /\ x \in ThreadRows /\ Len(list) \in Nat
      /\ DOMAIN list = 1..Len(list)
  BY DEF ListFits, RowFits
<1>2. <<x>> \in Seq(ThreadRows) /\ Len(<<x>>) = 1 /\ <<x>>[1] = x
  BY <1>1
<1>3. /\ new \in Seq(ThreadRows) /\ Len(new) = 1 + Len(list)
      /\ \A i \in 1..(1 + Len(list)) :
            new[i] = IF i <= 1 THEN <<x>>[i] ELSE list[i - 1]
  BY <1>1, <1>2, ConcatProperties
<1>4. DOMAIN new = 1..(1 + Len(list))
  <2> HIDE DEF new
  <2>1. QED
    BY <1>3
<1> HIDE DEF new
<1>5. /\ 1 \in DOMAIN new /\ new[1] = x
      /\ \A i \in DOMAIN list : i + 1 \in DOMAIN new /\ new[i + 1] = list[i]
      /\ \A i \in DOMAIN new : i = 1 \/ (i - 1 \in DOMAIN list /\ new[i] = list[i - 1])
  BY <1>1, <1>2, <1>3, <1>4
<1>6. \A i \in DOMAIN new : RowFits(new[i], c, q)
  BY <1>5 DEF ListFits
<1>7. UniqueIds(new)
  <2> SUFFICES ASSUME NEW i \in DOMAIN new, NEW j \in DOMAIN new, new[i].id = new[j].id
               PROVE  i = j
    BY DEF UniqueIds
  <2>1. \A k \in DOMAIN list : list[k].id # x.id
    BY DEF Listed
  <2>2. CASE i = 1 \/ j = 1
    BY <1>5, <2>1, <2>2
  <2>3. CASE i # 1 /\ j # 1
    <3>1. /\ i - 1 \in DOMAIN list /\ j - 1 \in DOMAIN list
          /\ list[i - 1].id = list[j - 1].id
      BY <1>5, <2>3
    <3>2. i - 1 = j - 1
      BY <3>1 DEF ListFits, UniqueIds
    <3>3. QED
      BY <1>4, <3>2
  <2>4. QED
    BY <2>2, <2>3
<1>8. Listed(new) = {x.id} \cup Listed(list)
  <2>1. Listed(new) \subseteq {x.id} \cup Listed(list)
    BY <1>5 DEF Listed
  <2>2. {x.id} \cup Listed(list) \subseteq Listed(new)
    BY <1>5 DEF Listed
  <2>3. QED
    BY <2>1, <2>2
<1>9. QED
  BY <1>3, <1>6, <1>7, <1>8 DEF ListFits, new

LEMMA ListDrop ==
    ASSUME NEW c, NEW q, NEW list, ListFits(list, c, q), NEW id \in Listed(list)
    PROVE  /\ ListFits(OthersThan(list, id), c, q)
           /\ Listed(OthersThan(list, id)) = Listed(list) \ {id}
<1> DEFINE k == RowOf(list, id)
           new == RemoveAt(list, k)
           at(j) == IF j < k THEN j ELSE j + 1
<1>1. k \in DOMAIN list /\ list[k].id = id
  BY ListRow
<1>2. /\ list \in Seq(ThreadRows) /\ Len(list) \in Nat /\ DOMAIN list = 1..Len(list)
      /\ UniqueIds(list) /\ \A i \in DOMAIN list : RowFits(list[i], c, q)
  BY DEF ListFits
<1> HIDE DEF k
<1>3. /\ new \in Seq(ThreadRows) /\ Len(new) = Len(list) - 1
      /\ \A j \in 1..(Len(list) - 1) : new[j] = IF j < k THEN list[j] ELSE list[j + 1]
  BY <1>1, <1>2, WithoutPlace
<1>4. DOMAIN new = 1..(Len(list) - 1)
  <2> HIDE DEF new
  <2>1. QED
    BY <1>3
<1> HIDE DEF new
<1>5. \A j \in DOMAIN new : at(j) \in DOMAIN list /\ at(j) # k /\ new[j] = list[at(j)]
  BY <1>1, <1>2, <1>3, <1>4
<1>6. \A i, j \in DOMAIN new : at(i) = at(j) => i = j
  BY <1>1, <1>2, <1>4
<1>7. \A i \in DOMAIN list : i = k \/ \E j \in DOMAIN new : at(j) = i
  <2> SUFFICES ASSUME NEW i \in DOMAIN list, i # k
               PROVE  \E j \in DOMAIN new : at(j) = i
    OBVIOUS
  <2>1. CASE i < k
    BY <1>1, <1>2, <1>4, <2>1
  <2>2. CASE ~ (i < k)
    <3>1. i - 1 \in DOMAIN new /\ at(i - 1) = i
      BY <1>1, <1>2, <1>4, <2>2
    <3>2. QED
      BY <3>1
  <2>3. QED
    BY <2>1, <2>2
<1> HIDE DEF at
<1>8. UniqueIds(new)
  BY <1>2, <1>5, <1>6 DEF UniqueIds
<1>9. Listed(new) = Listed(list) \ {id}
  <2>1. ASSUME NEW j \in DOMAIN new
        PROVE  new[j].id \in Listed(list) /\ new[j].id # id
    BY <1>1, <1>2, <1>5 DEF Listed, UniqueIds
  <2>2. ASSUME NEW i \in DOMAIN list, list[i].id # id
        PROVE  list[i].id \in Listed(new)
    BY <1>1, <1>5, <1>7, <2>2 DEF Listed
  <2>3. Listed(new) \subseteq Listed(list) \ {id}
    BY <2>1 DEF Listed
  <2>4. Listed(list) \ {id} \subseteq Listed(new)
    BY <2>2 DEF Listed
  <2>5. QED
    BY <2>3, <2>4
<1>10. OthersThan(list, id) = new
  BY DEF OthersThan, new, k
<1>11. QED
  BY <1>2, <1>3, <1>5, <1>8, <1>9, <1>10 DEF ListFits

LEMMA ListCap ==
    ASSUME NEW c, NEW q, NEW list, ListFits(list, c, q)
    PROVE  /\ ListFits(Capped(list), c, q) /\ Listed(Capped(list)) \subseteq Listed(list)
           /\ Capped(Capped(list)) = Capped(list)
<1>1. /\ list \in Seq(ThreadRows) /\ Len(list) \in Nat /\ DOMAIN list = 1..Len(list)
      /\ UniqueIds(list) /\ \A i \in DOMAIN list : RowFits(list[i], c, q) /\ list[i] \in ThreadRows
      /\ MaxStored \in Nat \ {0}
  BY ChatAssumption DEF ListFits, RowFits
<1>2. CASE Len(list) <= MaxStored
  BY <1>2 DEF Capped
<1>3. CASE ~ (Len(list) <= MaxStored)
  <2> DEFINE new == SubSeq(list, 1, MaxStored)
  <2>1. Capped(list) = new
    BY <1>3 DEF Capped
  <2>2. /\ 1 \in Int /\ MaxStored \in Int
        /\ \A i \in 1..MaxStored : i \in DOMAIN list /\ list[i] \in ThreadRows
    BY <1>1, <1>3
  <2>3. /\ new \in Seq(ThreadRows)
        /\ Len(new) = IF 1 <= MaxStored THEN MaxStored - 1 + 1 ELSE 0
        /\ \A i \in 1..(MaxStored - 1 + 1) : new[i] = list[1 + i - 1]
    BY <2>2, SubSeqProperties
  <2> HIDE DEF new
  <2>4. /\ Len(new) = MaxStored /\ DOMAIN new = 1..MaxStored
        /\ \A i \in 1..MaxStored : new[i] = list[i]
    BY <1>1, <2>3
  <2>5. \A i \in DOMAIN new : i \in DOMAIN list /\ new[i] = list[i]
    BY <2>2, <2>4
  <2>6. UniqueIds(new) /\ \A i \in DOMAIN new : RowFits(new[i], c, q)
    BY <1>1, <2>5 DEF UniqueIds
  <2>7. Listed(new) \subseteq Listed(list)
    BY <2>5 DEF Listed
  <2>8. Capped(new) = new
    BY <1>1, <2>4 DEF Capped
  <2>9. QED
    BY <2>1, <2>3, <2>6, <2>7, <2>8 DEF ListFits
<1>4. QED
  BY <1>2, <1>3

LEMMA ListHead ==
    ASSUME NEW c, NEW q, NEW list, ListFits(list, c, q), list # <<>>
    PROVE  RowFits(Head(list), c, q) /\ Head(list).id \in Listed(list)
<1>1. 1 \in DOMAIN list /\ Head(list) = list[1]
  BY DEF ListFits
<1>2. QED
  BY <1>1 DEF ListFits, Listed

LEMMA FreshFits ==
    ASSUME NEW c, NEW q, NEW id \in Threads, \A n \in DOMAIN q : q[n].home # id
    PROVE  /\ RowFits(FreshThread(id), c, q) /\ FreshThread(id).id = id
           /\ ListFits(<<FreshThread(id)>>, c, q) /\ Listed(<<FreshThread(id)>>) = {id}
<1>1. <<>> \in Seq(Message) /\ DOMAIN <<>> = {}
  OBVIOUS
<1>2. /\ FreshThread(id) \in ThreadRows /\ FreshThread(id).id = id
      /\ FreshThread(id).messages = <<>>
  BY <1>1 DEF FreshThread, ThreadRows
<1>3. RowFits(FreshThread(id), c, q)
  BY <1>1, <1>2 DEF RowFits, Follows, KeepsAll
<1> DEFINE one == FreshThread(id)
<1> HIDE DEF one
<1>4. one \in ThreadRows /\ one.id = id /\ RowFits(one, c, q)
  BY <1>2, <1>3 DEF one
<1>5. <<one>> \in Seq(ThreadRows) /\ DOMAIN <<one>> = {1} /\ <<one>>[1] = one
  BY <1>4
<1>6. ListFits(<<one>>, c, q) /\ Listed(<<one>>) = {id}
  <2>1. Listed(<<one>>) = {id}
    BY <1>4, <1>5 DEF Listed
  <2>2. UniqueIds(<<one>>)
    BY <1>5 DEF UniqueIds
  <2>3. QED
    BY <1>4, <1>5, <2>1, <2>2 DEF ListFits
<1>7. QED
  BY <1>2, <1>3, <1>6 DEF one

\* Placeholders are at the end, so that the others are the first messages.
LEMMA SettledFirst ==
    ASSUME NEW ms \in Seq(Message), NEW m \in Nat, m <= Len(ms),
           \A i \in DOMAIN ms : ms[i].pending <=> ~ (i <= m)
    PROVE  /\ Settled(ms) \in Seq(Message) /\ DOMAIN Settled(ms) = 1..m
           /\ \A k \in 1..m : Settled(ms)[k] = ms[k]
<1> DEFINE kept == {i \in DOMAIN ms : ~ ms[i].pending}
           nth(k) == CHOOSE i \in kept : Cardinality({j \in kept : j <= i}) = k
<1>1. Len(ms) \in Nat /\ DOMAIN ms = 1..Len(ms) /\ \A i \in DOMAIN ms : ms[i] \in Message
  OBVIOUS
<1>2. kept = 1..m
  BY <1>1
<1>3. \A i \in Nat : Cardinality(1..i) = i
  BY FS_Interval
<1>4. Settled(ms) = [k \in 1..Cardinality(kept) |-> ms[nth(k)]]
  BY DEF Settled
<1> HIDE DEF kept
<1>5. \A i \in kept : {j \in kept : j <= i} = 1..i /\ i \in Nat
  BY <1>2
<1>6. \A i \in kept : Cardinality({j \in kept : j <= i}) = i
  BY <1>3, <1>5
<1>7. \A k \in 1..m : nth(k) = k
  BY <1>2, <1>6
<1> HIDE DEF nth
<1>8. Settled(ms) = [k \in 1..m |-> ms[k]]
  BY <1>2, <1>3, <1>4, <1>7
<1>9. \A k \in 1..m : k \in DOMAIN ms /\ ms[k] \in Message
  BY <1>1
<1>10. [k \in 1..m |-> ms[k]] \in Seq(Message)
  BY <1>9
<1>11. QED
  BY <1>8, <1>10

\* What is on the screen fits into its thread.
LEMMA SettledFits ==
    ASSUME NEW c, NEW q, NEW ms, NEW id \in Threads, ShownMessages(ms, id, c, q)
    PROVE  RowFits([id |-> id, messages |-> Settled(ms)], c, q)
<1>1. /\ ms \in Seq(Message) /\ Len(ms) \in Nat /\ DOMAIN ms = 1..Len(ms)
      /\ \A i \in DOMAIN ms : ms[i].pending => i = Len(ms)
      /\ \A i \in DOMAIN ms : ms[i].pending \in BOOLEAN
  <2>1. ms \in Seq(Message) /\ \A i \in DOMAIN ms : ms[i].pending => i = Len(ms)
    BY DEF ShownMessages
  <2>2. \A i \in DOMAIN ms : ms[i] \in Message
    BY <2>1
  <2>3. \A i \in DOMAIN ms : ms[i].pending \in BOOLEAN
    BY <2>2 DEF Message
  <2>4. Len(ms) \in Nat /\ DOMAIN ms = 1..Len(ms)
    BY <2>1
  <2>5. QED
    BY <2>1, <2>3, <2>4
<1>2. PICK m \in Nat : m <= Len(ms) /\ \A i \in DOMAIN ms : ms[i].pending <=> ~ (i <= m)
  <2>1. CASE \E i \in DOMAIN ms : ms[i].pending
    <3>1. Len(ms) \in DOMAIN ms /\ ms[Len(ms)].pending
      BY <1>1, <2>1
    <3>2. Len(ms) - 1 \in Nat /\ Len(ms) - 1 <= Len(ms)
      BY <1>1, <3>1
    <3>3. ASSUME NEW i \in DOMAIN ms
          PROVE  ms[i].pending <=> ~ (i <= Len(ms) - 1)
      <4>1. (i = Len(ms)) <=> ~ (i <= Len(ms) - 1)
        BY <1>1
      <4>2. ms[i].pending <=> i = Len(ms)
        BY <1>1, <3>1
      <4>3. QED
        BY <4>1, <4>2
    <3>4. QED
      BY <3>2, <3>3
  <2>2. CASE ~ \E i \in DOMAIN ms : ms[i].pending
    <3>1. \A i \in DOMAIN ms : i <= Len(ms)
      BY <1>1
    <3>2. QED
      BY <1>1, <2>2, <3>1
  <2>3. QED
    BY <2>1, <2>2
<1> DEFINE t == Settled(ms)
<1>3. t \in Seq(Message) /\ DOMAIN t = 1..m /\ \A k \in 1..m : t[k] = ms[k]
  BY <1>1, <1>2, SettledFirst
<1> HIDE DEF t
<1>4. \A k \in 1..m : k \in DOMAIN ms /\ k <= m /\ k \in Nat
  BY <1>1, <1>2
<1>5. Follows(t, q)
  <2> SUFFICES ASSUME NEW i \in DOMAIN t
               PROVE  FollowsAt(t, i, q)
    BY DEF Follows
  <2>1. FollowsAt(ms, i, q) /\ t[i] = ms[i]
    BY <1>3, <1>4 DEF ShownMessages, Follows
  <2>2. i > 1 => t[i - 1] = ms[i - 1]
    BY <1>3, <1>4
  <2>3. QED
    BY <2>1, <2>2 DEF FollowsAt
<1>6. \A i \in DOMAIN t : ~ t[i].pending
  BY <1>2, <1>3, <1>4
<1>7. KeepsAll(t, id, c, q)
  <2> SUFFICES ASSUME NEW n \in DOMAIN q, Exchanged(n, c, q), q[n].home = id
               PROVE  HasReply(t, n)
    BY DEF KeepsAll
  <2>1. PICK i \in DOMAIN ms : i + 1 \in DOMAIN ms /\ ms[i] = Question(n) /\ ~ ms[i + 1].pending
    BY DEF ShownMessages, KeepsAll, HasReply
  <2>2. i + 1 <= m
    BY <1>2, <2>1
  <2>3. i \in 1..m /\ i + 1 \in 1..m
    BY <1>1, <2>1, <2>2
  <2>4. QED
    BY <1>3, <2>1, <2>3 DEF HasReply
<1> DEFINE row == [id |-> id, messages |-> t]
<1>8. row \in ThreadRows /\ row.id = id /\ row.messages = t
  BY <1>3 DEF ThreadRows
<1> HIDE DEF row
<1>9. RowFits(row, c, q)
  BY <1>5, <1>6, <1>7, <1>8 DEF RowFits
<1>10. QED
  BY <1>9 DEF row, t

LEMMA RowShown ==
    ASSUME NEW c, NEW q, NEW t, RowFits(t, c, q)
    PROVE  /\ ShownMessages(t.messages, t.id, c, q) /\ t.id \in Threads
           /\ t.messages \in Seq(Message)
BY DEF RowFits, ShownMessages, ThreadRows


-----------------------------------------------------------------------------
\* The steps of the screen.
ScreenRows ==
    [threads : Seq(ThreadRows), current : Threads, messages : Seq(Message),
     sending : BOOLEAN, gone : SUBSET Threads]

LEMMA ChatFacts ==
    ASSUME ChatInv
    PROVE  /\ screen \in ScreenRows /\ ListFits(screen.threads, send, sends)
           /\ screen.threads \in Seq(ThreadRows) /\ screen.current \in Threads
           /\ screen.messages \in Seq(Message) /\ screen.gone \subseteq Threads
           /\ screen.current \in Listed(screen.threads)
           /\ ShownMessages(screen.messages, screen.current, send, sends)
           /\ \A n \in DOMAIN sends : sends[n].home \in Listed(screen.threads) \cup screen.gone
           /\ CallFits(send, sends) /\ StoredFits(stored, screen.threads)
           /\ send.n \in Nat /\ send.at \in {"idle", "asked", "saving"}
           /\ sends \in Seq(SendRows) /\ Len(sends) \in Nat /\ DOMAIN sends = 1..Len(sends)
           /\ Len(sends) <= MaxSends /\ MaxSends \in Nat
           /\ send.at # "idle" => send.n \in DOMAIN sends /\ ~ sends[send.n].ended
           /\ screen.sending = (send.at # "idle")
<1>1. /\ screen \in ScreenRows /\ ListFits(screen.threads, send, sends)
      /\ screen.current \in Listed(screen.threads)
      /\ ShownMessages(screen.messages, screen.current, send, sends)
      /\ \A n \in DOMAIN sends : sends[n].home \in Listed(screen.threads) \cup screen.gone
      /\ CallFits(send, sends) /\ StoredFits(stored, screen.threads)
      /\ screen.sending = (send.at # "idle")
  BY DEF ChatInv, ScreenFits, ScreenRows
<1>2. /\ screen.threads \in Seq(ThreadRows) /\ screen.current \in Threads
      /\ screen.messages \in Seq(Message) /\ screen.gone \subseteq Threads
  BY <1>1 DEF ScreenRows
<1>3. /\ send \in SendCalls /\ sends \in Seq(SendRows) /\ Len(sends) <= MaxSends
      /\ send.at # "idle" => send.n \in DOMAIN sends /\ ~ sends[send.n].ended
  BY <1>1 DEF CallFits
<1>4. /\ send.n \in Nat /\ send.at \in {"idle", "asked", "saving"}
      /\ Len(sends) \in Nat /\ DOMAIN sends = 1..Len(sends) /\ MaxSends \in Nat
  BY <1>3, ChatAssumption DEF SendCalls
<1>5. QED
  BY <1>1, <1>2, <1>3, <1>4

LEMMA SendFacts ==
    ASSUME ChatInv, NEW n \in DOMAIN sends
    PROVE  /\ sends[n] \in SendRows /\ sends[n].home \in Threads
           /\ sends[n].left \in BOOLEAN /\ sends[n].ended \in BOOLEAN
           /\ n \in Nat /\ n \in 1..MaxSends
<1>1. /\ sends \in Seq(SendRows) /\ n \in 1..Len(sends) /\ Len(sends) \in Nat
      /\ Len(sends) <= MaxSends /\ MaxSends \in Nat
  BY ChatFacts
<1>2. sends[n] \in SendRows /\ n \in Nat /\ n \in 1..MaxSends
  BY <1>1
<1>3. QED
  BY <1>2 DEF SendRows

\* A thread is shown in place of what was on the screen, whose question is left.
LEMMA ShowsThread ==
    ASSUME NEW c, NEW q, NEW d, NEW p, MovesOn(c, q, d, p),
           d.at = "asked" => p[d.n].left,
           NEW list, ListFits(list, c, q), NEW t, RowFits(t, c, q), t.id \in Listed(list),
           NEW s \in ScreenRows, s.threads = list, s.current = t.id, s.messages = t.messages,
           s.sending = (d.at # "idle"),
           \A n \in DOMAIN p : p[n].home \in Listed(list) \cup s.gone
    PROVE  ScreenFits(s, d, p)
<1>1. ListFits(list, d, p) /\ RowFits(t, d, p)
  BY ListOn, RowOn
<1>2. ShownMessages(t.messages, t.id, d, p)
  BY <1>1, RowShown
<1>3. QED
  BY <1>1, <1>2 DEF ScreenFits, ScreenRows

\* The user leaves what is asked.
LEMMA LeftFacts ==
    ASSUME ChatInv, sends' = Left
    PROVE  /\ CallFits(send, sends') /\ MovesOn(send, sends, send, sends')
           /\ send.at = "asked" => sends'[send.n].left
           /\ DOMAIN sends' = DOMAIN sends
           /\ \A n \in DOMAIN sends : sends'[n].home = sends[n].home
<1>1. CASE send.at = "asked"
  <2> DEFINE k == send.n
  <2>1. /\ sends' = [sends EXCEPT ![k].left = TRUE] /\ k \in DOMAIN sends
        /\ sends \in Seq(SendRows) /\ DOMAIN sends = 1..Len(sends) /\ Len(sends) \in Nat
        /\ CallFits(send, sends)
    BY <1>1, ChatFacts DEF Left
  <2>2. sends[k] \in SendRows /\ [sends[k] EXCEPT !.left = TRUE] \in SendRows
    BY <2>1, SendFacts DEF SendRows
  <2>3. sends' = [sends EXCEPT ![k] = [sends[k] EXCEPT !.left = TRUE]]
    BY <2>1
  <2>4. /\ sends' \in Seq(SendRows) /\ Len(sends') = Len(sends)
        /\ DOMAIN sends' = DOMAIN sends
    BY <2>1, <2>2, <2>3
  <2>5. /\ \A n \in DOMAIN sends : /\ sends'[n].home = sends[n].home
                                   /\ sends'[n].ended = sends[n].ended
                                   /\ sends'[n].left = (sends[n].left \/ n = k)
    <3>1. ASSUME NEW n \in DOMAIN sends
          PROVE  /\ sends'[n].home = sends[n].home /\ sends'[n].ended = sends[n].ended
                 /\ sends'[n].left = (sends[n].left \/ n = k)
      <4>1. CASE n = k
        <5>1. sends'[n] = [sends[k] EXCEPT !.left = TRUE]
          BY <2>1, <2>3, <4>1
        <5>2. QED
          BY <2>2, <4>1, <5>1 DEF SendRows
      <4>2. CASE n # k
        <5>1. sends'[n] = sends[n] /\ sends[n].left \in BOOLEAN
          BY <2>1, <2>3, <4>2, SendFacts
        <5>2. QED
          BY <4>2, <5>1
      <4>3. QED
        BY <4>1, <4>2
    <3>2. QED
      BY <3>1
  <2>6. CallFits(send, sends')
    BY <1>1, <2>1, <2>4, <2>5 DEF CallFits
  <2>7. MovesOn(send, sends, send, sends')
    BY <2>4, <2>5 DEF MovesOn, Exchanged
  <2>8. QED
    BY <2>1, <2>4, <2>5, <2>6, <2>7
<1>2. CASE send.at # "asked"
  <2>1. sends' = sends
    BY <1>2 DEF Left
  <2>2. QED
    BY <1>2, <2>1, ChatFacts DEF MovesOn
<1>3. QED
  BY <1>1, <1>2

LEMMA NewIdFacts ==
    ASSUME ChatInv, NEW id \in NewId
    PROVE  /\ id \in Threads /\ id \notin Listed(screen.threads) /\ id \notin screen.gone
           /\ id \notin Listed(stored)
           /\ \A n \in DOMAIN sends : sends[n].home # id
<1>1. id \in Unused
  BY DEF NewId
<1>2. QED
  BY <1>1, ChatFacts DEF Unused

LEMMA NewChatSteps ==
    ASSUME ChatInv, NewChat
    PROVE  ChatInv'
<1>1. PICK id \in NewId :
          /\ screen' = Showing(FreshThread(id), <<FreshThread(id)>> \o screen.threads)
          /\ stored' = Capped(screen'.threads)
          /\ sends' = Left
          /\ send' = send
  BY DEF NewChat
<1> DEFINE t == FreshThread(id)
           list == <<t>> \o screen.threads
<1>2. /\ RowFits(t, send, sends) /\ t.id = id /\ id \in Threads
      /\ id \notin Listed(screen.threads)
  BY NewIdFacts, FreshFits
<1>3. ListFits(list, send, sends) /\ Listed(list) = {id} \cup Listed(screen.threads)
  BY <1>2, ChatFacts, ListCons
<1> HIDE DEF t, list
<1>4. screen' = [screen EXCEPT !.threads = list, !.current = t.id, !.messages = t.messages]
  BY <1>1 DEF Showing, t, list
<1>5. /\ screen' \in ScreenRows /\ screen'.threads = list /\ screen'.current = t.id
      /\ screen'.messages = t.messages /\ screen'.sending = screen.sending
      /\ screen'.gone = screen.gone
  <2>1. list \in Seq(ThreadRows) /\ t.messages \in Seq(Message) /\ t.id \in Threads
    BY <1>2, <1>3, RowShown DEF ListFits
  <2>2. QED
    BY <1>4, <2>1, ChatFacts DEF ScreenRows
<1>6. ScreenFits(screen', send', sends')
  <2>1. \A n \in DOMAIN sends' : sends'[n].home \in Listed(list) \cup screen'.gone
    BY <1>1, <1>3, <1>5, ChatFacts, LeftFacts
  <2>2. screen'.sending = (send'.at # "idle")
    BY <1>1, <1>5, ChatFacts
  <2>3. t.id \in Listed(list)
    BY <1>2, <1>3
  <2>4. QED
    BY <1>1, <1>2, <1>3, <1>5, <2>1, <2>2, <2>3, LeftFacts, ShowsThread
<1>7. QED
  BY <1>1, <1>6, LeftFacts DEF ChatInv, StoredFits

LEMMA SwitchSteps ==
    ASSUME ChatInv, NEW id \in Threads, SwitchThread(id)
    PROVE  ChatInv'
<1> DEFINE list == screen.threads
           t == ThreadOf(list, id)
<1>1. /\ id \in Listed(list) /\ screen' = Showing(t, list)
      /\ sends' = Left /\ stored' = stored /\ send' = send
  BY DEF SwitchThread
<1>2. RowFits(t, send, sends) /\ t.id = id /\ ListFits(list, send, sends)
  BY <1>1, ChatFacts, ListRow
<1> HIDE DEF t
<1>3. screen' = [screen EXCEPT !.threads = list, !.current = t.id, !.messages = t.messages]
  BY <1>1 DEF Showing
<1>4. /\ screen' \in ScreenRows /\ screen'.threads = list /\ screen'.current = t.id
      /\ screen'.messages = t.messages /\ screen'.sending = screen.sending
      /\ screen'.gone = screen.gone
  <2>1. list \in Seq(ThreadRows) /\ t.messages \in Seq(Message) /\ t.id \in Threads
    BY <1>2, RowShown, ChatFacts
  <2>2. QED
    BY <1>3, <2>1, ChatFacts DEF ScreenRows
<1>5. ScreenFits(screen', send', sends')
  <2>1. \A n \in DOMAIN sends' : sends'[n].home \in Listed(list) \cup screen'.gone
    BY <1>1, <1>4, ChatFacts, LeftFacts
  <2>2. screen'.sending = (send'.at # "idle")
    BY <1>1, <1>4, ChatFacts
  <2>3. t.id \in Listed(list)
    BY <1>1, <1>2
  <2>4. QED
    BY <1>1, <1>2, <1>4, <2>1, <2>2, <2>3, LeftFacts, ShowsThread
<1>6. QED
  BY <1>1, <1>4, <1>5, ChatFacts, LeftFacts DEF ChatInv

LEMMA DeleteSteps ==
    ASSUME ChatInv, NEW id \in Threads, DeleteThread(id)
    PROVE  ChatInv'
<1> DEFINE remaining == OthersThan(screen.threads, id)
<1>1. /\ id \in Listed(screen.threads) /\ sends' = Left /\ send' = send
  BY DEF DeleteThread
<1>2. PICK list \in IF remaining = <<>>
                    THEN {<<FreshThread(fresh)>> : fresh \in NewId}
                    ELSE {remaining} :
          LET below == IF id = screen.current THEN Head(list)
                       ELSE ThreadOf(list, screen.current)
          IN  /\ screen' = [Showing(below, list) EXCEPT !.gone = @ \cup {id}]
              /\ stored' = Capped(list)
  BY DEF DeleteThread
<1> DEFINE t == IF id = screen.current THEN Head(list) ELSE ThreadOf(list, screen.current)
<1>3. /\ ListFits(remaining, send, sends)
      /\ Listed(remaining) = Listed(screen.threads) \ {id}
  BY <1>1, ChatFacts, ListDrop
<1> HIDE DEF remaining
<1>4. /\ ListFits(list, send, sends) /\ list # <<>>
      /\ Listed(remaining) \subseteq Listed(list)
  <2>1. CASE remaining = <<>>
    <3>1. PICK fresh \in NewId : list = <<FreshThread(fresh)>>
      BY <1>2, <2>1
    <3>2. ListFits(list, send, sends)
      BY <3>1, NewIdFacts, FreshFits
    <3>3. Listed(remaining) = {}
      BY <2>1 DEF Listed
    <3>4. QED
      BY <3>1, <3>2, <3>3
  <2>2. CASE remaining # <<>>
    BY <1>2, <1>3, <2>2
  <2>3. QED
    BY <2>1, <2>2
<1>5. RowFits(t, send, sends) /\ t.id \in Listed(list)
  <2>1. CASE id = screen.current
    BY <1>4, <2>1, ListHead
  <2>2. CASE id # screen.current
    <3>1. screen.current \in Listed(list)
      BY <1>3, <1>4, <2>2, ChatFacts
    <3>2. QED
      BY <1>4, <2>2, <3>1, ListRow
  <2>3. QED
    BY <2>1, <2>2
<1>6. screen' = [Showing(t, list) EXCEPT !.gone = screen.gone \cup {id}] /\ stored' = Capped(list)
  BY <1>2 DEF Showing
<1> HIDE DEF t
<1>7. /\ screen' \in ScreenRows /\ screen'.threads = list /\ screen'.current = t.id
      /\ screen'.messages = t.messages /\ screen'.sending = screen.sending
      /\ screen'.gone = screen.gone \cup {id}
  <2>1. /\ list \in Seq(ThreadRows) /\ t.messages \in Seq(Message) /\ t.id \in Threads
        /\ screen.gone \cup {id} \subseteq Threads
    BY <1>4, <1>5, RowShown, ChatFacts DEF ListFits
  <2>2. QED
    BY <1>6, <2>1, ChatFacts DEF ScreenRows, Showing
<1>8. \A n \in DOMAIN sends' : sends'[n].home \in Listed(list) \cup screen'.gone
  BY <1>1, <1>3, <1>4, <1>7, ChatFacts, LeftFacts
<1>9. ScreenFits(screen', send', sends')
  BY <1>1, <1>4, <1>5, <1>7, <1>8, ChatFacts, LeftFacts, ShowsThread
<1>10. QED
  BY <1>1, <1>6, <1>7, <1>9, LeftFacts DEF ChatInv, StoredFits

LEMMA ReopenSteps ==
    ASSUME ChatInv, Reopen
    PROVE  ChatInv'
<1>1. PICK list \in IF stored = <<>> THEN {<<FreshThread(id)>> : id \in NewId} ELSE {stored} :
          screen' = [Showing(Head(list), list) EXCEPT !.sending = FALSE,
                        !.gone = @ \cup (Listed(screen.threads) \ Listed(list))]
  BY DEF Reopen
<1>2. /\ send' = [n |-> 0, at |-> "idle"] /\ stored' = stored
      /\ sends' = IF send.at = "idle" THEN sends
                  ELSE [sends EXCEPT ![send.n].left = TRUE, ![send.n].ended = TRUE]
  BY DEF Reopen
<1>3. /\ CallFits(send', sends') /\ MovesOn(send, sends, send', sends')
      /\ DOMAIN sends' = DOMAIN sends
      /\ \A n \in DOMAIN sends : sends'[n].home = sends[n].home
  <2>1. send' \in SendCalls /\ send'.at = "idle" /\ send'.n = 0
    BY <1>2 DEF SendCalls
  <2>2. CASE send.at = "idle"
    <3>1. sends' = sends
      BY <1>2, <2>2
    <3>2. QED
      BY <2>1, <2>2, <3>1, ChatFacts DEF CallFits, MovesOn, Exchanged
  <2>3. CASE send.at # "idle"
    <3> DEFINE k == send.n
               row == [sends[k] EXCEPT !.left = TRUE, !.ended = TRUE]
    <3>1. /\ k \in DOMAIN sends /\ sends \in Seq(SendRows) /\ Len(sends) <= MaxSends
          /\ DOMAIN sends = 1..Len(sends) /\ Len(sends) \in Nat
      BY <2>3, ChatFacts
    <3>2. /\ row \in SendRows /\ row.left = TRUE /\ row.home = sends[k].home
      BY <3>1, SendFacts DEF SendRows
    <3>3. sends' = [sends EXCEPT ![k] = row]
      BY <1>2, <2>3, <3>1
    <3> HIDE DEF row
    <3>4. /\ sends' \in Seq(SendRows) /\ Len(sends') = Len(sends)
          /\ DOMAIN sends' = DOMAIN sends /\ sends'[k] = row
          /\ \A n \in DOMAIN sends : n # k => sends'[n] = sends[n]
      BY <3>1, <3>2, <3>3
    <3>5. CallFits(send', sends')
      BY <2>1, <3>1, <3>4 DEF CallFits
    <3>6. \A n \in DOMAIN sends : sends'[n].home = sends[n].home
      BY <3>2, <3>4
    <3>7. \A n \in DOMAIN sends : sends[n].left => sends'[n].left
      BY <3>2, <3>4
    <3>8. \A n \in DOMAIN sends : Exchanged(n, send', sends') => Exchanged(n, send, sends)
      BY <2>1, <3>2, <3>4 DEF Exchanged
    <3>9. MovesOn(send, sends, send', sends')
      BY <3>4, <3>6, <3>7, <3>8 DEF MovesOn
    <3>10. QED
      BY <3>4, <3>5, <3>6, <3>9
  <2>4. QED
    BY <2>2, <2>3
<1>4. /\ ListFits(list, send, sends) /\ list # <<>>
      /\ StoredFits(stored, list)
  <2>1. CASE stored = <<>>
    <3>1. PICK id \in NewId : list = <<FreshThread(id)>>
      BY <1>1, <2>1
    <3>2. ListFits(list, send, sends)
      BY <3>1, NewIdFacts, FreshFits
    <3>3. QED
      BY <2>1, <3>1, <3>2 DEF StoredFits
  <2>2. CASE stored # <<>>
    <3>1. list = stored /\ stored = Capped(screen.threads)
      BY <1>1, <2>2, ChatFacts DEF StoredFits
    <3>2. QED
      BY <2>2, <3>1, ChatFacts, ListCap DEF StoredFits
  <2>3. QED
    BY <2>1, <2>2
<1> DEFINE t == Head(list)
<1>5. RowFits(t, send, sends) /\ t.id \in Listed(list)
  BY <1>4, ListHead
<1> HIDE DEF t
<1>6. screen' = [Showing(t, list) EXCEPT !.sending = FALSE,
                    !.gone = screen.gone \cup (Listed(screen.threads) \ Listed(list))]
  BY <1>1 DEF Showing, t
<1>7. /\ screen' \in ScreenRows /\ screen'.threads = list /\ screen'.current = t.id
      /\ screen'.messages = t.messages /\ screen'.sending = FALSE
      /\ screen'.gone = screen.gone \cup (Listed(screen.threads) \ Listed(list))
  <2>1. Listed(screen.threads) \subseteq Threads
    <3>1. \A i \in DOMAIN screen.threads : screen.threads[i] \in ThreadRows
      BY ChatFacts
    <3>2. \A i \in DOMAIN screen.threads : screen.threads[i].id \in Threads
      BY <3>1 DEF ThreadRows
    <3>3. QED
      BY <3>2 DEF Listed
  <2>2. /\ list \in Seq(ThreadRows) /\ t.messages \in Seq(Message) /\ t.id \in Threads
        /\ screen.gone \cup (Listed(screen.threads) \ Listed(list)) \in SUBSET Threads
    BY <1>4, <1>5, <2>1, RowShown, ChatFacts DEF ListFits
  <2>3. QED
    BY <1>6, <2>2, ChatFacts DEF ScreenRows, Showing
<1>8. \A n \in DOMAIN sends' : sends'[n].home \in Listed(list) \cup screen'.gone
  BY <1>3, <1>7, ChatFacts
<1>9. ScreenFits(screen', send', sends')
  <2>1. send'.at = "idle"
    BY <1>2
  <2>2. screen'.sending = (send'.at # "idle") /\ send'.at # "asked"
    BY <1>7, <2>1
  <2>3. QED
    BY <1>3, <1>4, <1>5, <1>7, <1>8, <2>2, ShowsThread
<1>10. QED
  BY <1>2, <1>3, <1>4, <1>7, <1>9 DEF ChatInv


\* The call of the server, which may be answered much later.
LEMMA AskSteps ==
    ASSUME ChatInv, Ask
    PROVE  ChatInv'
<1> DEFINE n == Len(sends) + 1
           ms == screen.messages
           new == ms \o <<Question(n), Placeholder(n)>>
           row == [home |-> screen.current, left |-> FALSE, ended |-> FALSE]
<1>1. /\ ~ screen.sending /\ Len(sends) < MaxSends
      /\ screen' = [screen EXCEPT !.messages = new, !.sending = TRUE]
      /\ send' = [n |-> n, at |-> "asked"]
      /\ sends' = Append(sends, row) /\ stored' = stored
  BY DEF Ask
<1>2. /\ n \in 1..MaxSends /\ n \in Nat /\ n \notin DOMAIN sends /\ n <= MaxSends
      /\ send.at = "idle" /\ row \in SendRows
  <2>1. /\ sends \in Seq(SendRows) /\ screen.sending = (send.at # "idle")
        /\ screen.current \in Threads
    BY ChatFacts
  <2>2. send.at = "idle"
    BY <1>1, <2>1
  <2>3. row \in SendRows
    BY <2>1 DEF SendRows
  <2> HIDE DEF row
  <2>4. /\ Len(sends) \in Nat /\ DOMAIN sends = 1..Len(sends) /\ MaxSends \in Nat
        /\ Len(sends) < MaxSends
    BY <1>1, <2>1, ChatAssumption
  <2>5. /\ n \in 1..MaxSends /\ n \in Nat /\ n \notin DOMAIN sends /\ n <= MaxSends
    BY <2>4
  <2>6. QED
    BY <2>2, <2>3, <2>5
<1>3. /\ Question(n) \in Message /\ Placeholder(n) \in Message
      /\ Question(n).role = "user" /\ Question(n).of = n /\ ~ Question(n).pending
      /\ Placeholder(n).of = n
  BY <1>2 DEF Question, Placeholder, Message
<1>4. /\ send' \in SendCalls /\ send'.n = n /\ send'.at = "asked"
  BY <1>1, <1>2 DEF SendCalls
<1> HIDE DEF n
<1>5. /\ sends' \in Seq(SendRows) /\ Len(sends') = n /\ n \in DOMAIN sends'
      /\ sends'[n] = row /\ row.home = screen.current /\ row.left = FALSE /\ row.ended = FALSE
      /\ DOMAIN sends' = DOMAIN sends \cup {n}
      /\ \A m \in DOMAIN sends : sends'[m] = sends[m]
  <2>1. sends \in Seq(SendRows) /\ n = Len(sends) + 1 /\ Len(sends) \in Nat
    BY ChatFacts DEF n
  <2> HIDE DEF row
  <2>2. /\ sends' \in Seq(SendRows) /\ Len(sends') = Len(sends) + 1
        /\ \A m \in 1..Len(sends) : sends'[m] = sends[m]
        /\ sends'[Len(sends) + 1] = row
    BY <1>1, <1>2, <2>1
  <2>3. DOMAIN sends = 1..Len(sends) /\ DOMAIN sends' = 1..(Len(sends) + 1)
    BY <2>1, <2>2
  <2>4. QED
    BY <2>1, <2>2, <2>3 DEF row
<1> HIDE DEF row
<1>6. CallFits(send', sends')
  BY <1>2, <1>4, <1>5 DEF CallFits
<1>7. MovesOn(send, sends, send', sends')
  <2>1. \A m \in DOMAIN sends' : Exchanged(m, send', sends') => Exchanged(m, send, sends)
    BY <1>4, <1>5 DEF Exchanged
  <2>2. QED
    BY <1>5, <2>1 DEF MovesOn
<1>8. /\ ms \in Seq(Message) /\ Len(ms) \in Nat /\ DOMAIN ms = 1..Len(ms)
      /\ Follows(ms, sends) /\ KeepsAll(ms, screen.current, send, sends)
      /\ \A i \in DOMAIN ms : ~ ms[i].pending
  BY <1>2, ChatFacts DEF ShownMessages
<1> HIDE DEF ms
<1> DEFINE k == Len(ms)
<1>9. /\ new \in Seq(Message) /\ Len(new) = k + 2 /\ DOMAIN new = 1..(k + 2)
      /\ \A i \in 1..k : new[i] = ms[i]
      /\ new[k + 1] = Question(n) /\ new[k + 2] = Placeholder(n)
  <2> DEFINE two == <<Question(n), Placeholder(n)>>
  <2>1. two \in Seq(Message) /\ Len(two) = 2 /\ two[1] = Question(n) /\ two[2] = Placeholder(n)
    BY <1>3
  <2> HIDE DEF two
  <2>2. /\ ms \o two \in Seq(Message) /\ Len(ms \o two) = Len(ms) + Len(two)
        /\ \A i \in 1..(Len(ms) + Len(two)) :
              (ms \o two)[i] = IF i <= Len(ms) THEN ms[i] ELSE two[i - Len(ms)]
    BY <1>8, <2>1, ConcatProperties
  <2>3. new = ms \o two
    BY DEF two
  <2> HIDE DEF new
  <2>4. \A i \in 1..(k + 2) : new[i] = IF i <= k THEN ms[i] ELSE two[i - k]
    BY <1>8, <2>1, <2>2, <2>3
  <2>5. /\ \A i \in 1..k : new[i] = ms[i]
        /\ new[k + 1] = two[1] /\ new[k + 2] = two[2]
    BY <1>8, <2>4
  <2>6. new \in Seq(Message) /\ Len(new) = k + 2 /\ DOMAIN new = 1..(k + 2)
    BY <1>8, <2>1, <2>2, <2>3
  <2>7. QED
    BY <2>1, <2>5, <2>6
<1> HIDE DEF new
<1>10. /\ \A i \in DOMAIN new : i \in DOMAIN ms \/ i = k + 1 \/ i = k + 2
       /\ \A i \in DOMAIN ms : i \in DOMAIN new /\ i - 1 # k + 1 /\ new[i] = ms[i]
       /\ k + 1 \in DOMAIN new /\ k + 2 \in DOMAIN new
       /\ (k + 2) - 1 = k + 1 /\ k + 2 > 1
       /\ \A i \in DOMAIN ms : i > 1 => i - 1 \in DOMAIN ms
  BY <1>8, <1>9
<1>11. Follows(new, sends')
  <2>1. Follows(ms, sends')
    BY <1>7, <1>8, FollowsOn DEF MovesOn
  <2> SUFFICES ASSUME NEW i \in DOMAIN new
               PROVE  FollowsAt(new, i, sends')
    BY DEF Follows
  <2>2. CASE i \in DOMAIN ms
    <3>1. FollowsAt(ms, i, sends') /\ new[i] = ms[i]
      BY <1>10, <2>1, <2>2 DEF Follows
    <3>2. i > 1 => new[i - 1] = ms[i - 1]
      BY <1>10, <2>2
    <3>3. QED
      BY <3>1, <3>2 DEF FollowsAt
  <2>3. CASE i = k + 1
    BY <1>3, <1>5, <1>9, <2>3 DEF FollowsAt
  <2>4. CASE i = k + 2
    BY <1>3, <1>5, <1>9, <1>10, <2>4 DEF FollowsAt
  <2>5. QED
    BY <1>10, <2>2, <2>3, <2>4
<1>12. KeepsAll(new, screen.current, send', sends')
  <2> SUFFICES ASSUME NEW m \in DOMAIN sends', Exchanged(m, send', sends'),
                      sends'[m].home = screen.current
               PROVE  HasReply(new, m)
    BY DEF KeepsAll
  <2>1. Exchanged(m, send, sends) /\ m \in DOMAIN sends
    BY <1>7 DEF MovesOn, Exchanged
  <2>2. HasReply(ms, m)
    BY <1>5, <1>8, <2>1 DEF KeepsAll
  <2>3. QED
    BY <1>10, <2>2 DEF HasReply
<1>13. ShownMessages(new, screen.current, send', sends')
  <2>1. \A i \in DOMAIN new : new[i].pending => i = Len(new)
    BY <1>3, <1>8, <1>9, <1>10
  <2>2. QED
    BY <1>4, <1>9, <1>11, <1>12, <2>1 DEF ShownMessages
<1>14. AwaitsReply(new, n)
  <2>1. Len(new) - 1 = k + 1 /\ Len(new) = k + 2
    BY <1>8, <1>9
  <2>2. QED
    BY <1>9, <1>10, <2>1 DEF AwaitsReply
<1>15. /\ screen' \in ScreenRows /\ screen'.threads = screen.threads
       /\ screen'.current = screen.current /\ screen'.messages = new
       /\ screen'.sending = TRUE /\ screen'.gone = screen.gone
  BY <1>1, <1>9, ChatFacts DEF ScreenRows
<1>16. ListFits(screen.threads, send', sends')
  BY <1>7, ChatFacts, ListOn
<1>17. \A m \in DOMAIN sends' :
          sends'[m].home \in Listed(screen.threads) \cup screen.gone
  BY <1>5, ChatFacts
<1>18. ScreenFits(screen', send', sends')
  <2>1. (send'.at = "asked" /\ ~ sends'[send'.n].left) =>
           screen'.current = sends'[send'.n].home /\ AwaitsReply(screen'.messages, send'.n)
    BY <1>4, <1>5, <1>14, <1>15
  <2>2. /\ ListFits(screen'.threads, send', sends') /\ screen'.current \in Listed(screen'.threads)
        /\ ShownMessages(screen'.messages, screen'.current, send', sends')
        /\ screen'.sending = (send'.at # "idle")
        /\ \A m \in DOMAIN sends' :
              sends'[m].home \in Listed(screen'.threads) \cup screen'.gone
    BY <1>4, <1>13, <1>15, <1>16, <1>17, ChatFacts
  <2>3. QED
    BY <1>15, <2>1, <2>2 DEF ScreenFits, ScreenRows
<1>19. StoredFits(stored', screen'.threads)
  BY <1>1, <1>15, ChatFacts
<1>20. QED
  BY <1>6, <1>18, <1>19 DEF ChatInv

\* The reply takes the place of the last message, whatever that is.
LEMMA ReplyShown ==
    ASSUME ChatInv, send.at = "asked", screen.messages # <<>>,
           NEW d, d.n = send.n, d.at = "saving"
    PROVE  LET below == [screen.messages EXCEPT ![Len(screen.messages)] = Reply(send.n)]
           IN  /\ ShownMessages(below, screen.current, d, sends)
               /\ below \in Seq(Message)
<1> DEFINE ms == screen.messages
           k == Len(ms)
           n == send.n
           below == [ms EXCEPT ![k] = Reply(n)]
<1>1. /\ ms \in Seq(Message) /\ k \in Nat /\ DOMAIN ms = 1..k /\ k \in DOMAIN ms
      /\ Follows(ms, sends) /\ KeepsAll(ms, screen.current, send, sends)
      /\ \A i \in DOMAIN ms : ms[i].pending => i = k
  BY ChatFacts DEF ShownMessages
<1>2. n \in DOMAIN sends /\ n \in 1..MaxSends /\ ~ sends[n].ended
  BY ChatFacts, SendFacts
<1>3. /\ Reply(n) \in Message /\ Reply(n).of = n /\ Reply(n).pending = FALSE
  BY <1>2 DEF Reply, Message
<1>4. ~ sends[n].left => screen.current = sends[n].home /\ AwaitsReply(ms, n)
  BY DEF ChatInv, ScreenFits
<1> HIDE DEF ms, n
<1>5. /\ below \in Seq(Message) /\ Len(below) = k /\ DOMAIN below = DOMAIN ms
      /\ below[k] = Reply(n) /\ \A i \in DOMAIN ms : i # k => below[i] = ms[i]
  BY <1>1, <1>3
<1>6. ~ sends[n].left => k - 1 \in DOMAIN ms /\ k > 1 /\ below[k - 1] = Question(n)
  <2> SUFFICES ASSUME ~ sends[n].left
               PROVE  k - 1 \in DOMAIN ms /\ k > 1 /\ below[k - 1] = Question(n)
    OBVIOUS
  <2>1. k - 1 \in DOMAIN ms /\ ms[k - 1] = Question(n)
    BY <1>4 DEF AwaitsReply
  <2> HIDE DEF k, below
  <2>2. k > 1 /\ k - 1 # k
    BY <1>1, <2>1
  <2>3. QED
    BY <1>5, <2>1, <2>2
<1>7. \A i \in DOMAIN ms : /\ i > 1 => i - 1 \in DOMAIN ms /\ i - 1 # k
                           /\ i + 1 \in DOMAIN ms => i # k
  BY <1>1
<1> HIDE DEF below, k
<1>8. Follows(below, sends)
  <2> SUFFICES ASSUME NEW i \in DOMAIN ms
               PROVE  FollowsAt(below, i, sends)
    BY <1>5 DEF Follows
  <2>1. CASE i = k
    BY <1>2, <1>3, <1>5, <1>6, <2>1 DEF FollowsAt
  <2>2. CASE i # k
    <3>1. FollowsAt(ms, i, sends) /\ below[i] = ms[i]
      BY <1>1, <1>5, <2>2 DEF Follows
    <3>2. i > 1 => below[i - 1] = ms[i - 1]
      BY <1>5, <1>7
    <3>3. QED
      BY <3>1, <3>2 DEF FollowsAt
  <2>3. QED
    BY <2>1, <2>2
<1>9. \A i \in DOMAIN below : ~ below[i].pending
  BY <1>1, <1>3, <1>5
<1>10. KeepsAll(below, screen.current, d, sends)
  <2> SUFFICES ASSUME NEW m \in DOMAIN sends, Exchanged(m, d, sends),
                      sends[m].home = screen.current
               PROVE  HasReply(below, m)
    BY DEF KeepsAll
  <2>1. CASE m = n
    <3>1. ~ sends[n].left
      BY <2>1 DEF Exchanged
    <3>2. k - 1 \in DOMAIN below /\ (k - 1) + 1 = k /\ k \in DOMAIN below
      BY <1>1, <1>5, <1>6, <3>1
    <3>3. QED
      BY <1>3, <1>5, <1>6, <2>1, <3>1, <3>2 DEF HasReply
  <2>2. CASE m # n
    <3>1. Exchanged(m, send, sends)
      BY <2>2 DEF Exchanged, n
    <3>2. PICK i \in DOMAIN ms : i + 1 \in DOMAIN ms /\ ms[i] = Question(m)
      BY <1>1, <3>1 DEF KeepsAll, HasReply
    <3>3. below[i] = ms[i] /\ ~ below[i + 1].pending
      BY <1>5, <1>7, <1>9, <3>2
    <3>4. QED
      BY <1>5, <3>2, <3>3 DEF HasReply
  <2>3. QED
    BY <2>1, <2>2
<1>11. ShownMessages(below, screen.current, d, sends)
  BY <1>5, <1>8, <1>9, <1>10 DEF ShownMessages
<1>12. QED
  BY <1>5, <1>11 DEF below, k, ms, n

\* The current thread is saved, and comes first.
LEMMA SavedFits ==
    ASSUME ChatInv, NEW d, NEW ms, ShownMessages(ms, screen.current, d, sends),
           \A n \in DOMAIN sends : /\ Exchanged(n, d, sends)
                                   /\ sends[n].home # screen.current
                                   => Exchanged(n, send, sends)
    PROVE  /\ ListFits(Saved(ms), d, sends)
           /\ Listed(Saved(ms)) = Listed(screen.threads)
<1> DEFINE row == [id |-> screen.current, messages |-> Settled(ms)]
           others == OthersThan(screen.threads, screen.current)
<1>1. /\ screen.current \in Listed(screen.threads) /\ screen.current \in Threads
      /\ ListFits(screen.threads, send, sends)
  BY ChatFacts
<1>2. RowFits(row, d, sends) /\ row.id = screen.current
  BY <1>1, SettledFits
<1>3. /\ ListFits(others, send, sends)
      /\ Listed(others) = Listed(screen.threads) \ {screen.current}
  BY <1>1, ListDrop
<1>4. Saved(ms) = <<row>> \o others
  BY <1>1 DEF Saved
<1> HIDE DEF row, others
<1>5. ListFits(others, d, sends)
  <2>1. ASSUME NEW i \in DOMAIN others
        PROVE  RowFits(others[i], d, sends)
    <3>1. RowFits(others[i], send, sends) /\ others[i].id # screen.current
      BY <1>3 DEF ListFits, Listed
    <3>2. KeepsAll(others[i].messages, others[i].id, d, sends)
      BY <3>1 DEF RowFits, KeepsAll
    <3>3. QED
      BY <3>1, <3>2 DEF RowFits
  <2>2. QED
    BY <1>3, <2>1 DEF ListFits
<1>6. row.id \notin Listed(others)
  BY <1>2, <1>3
<1>7. /\ ListFits(<<row>> \o others, d, sends)
      /\ Listed(<<row>> \o others) = {row.id} \cup Listed(others)
  BY <1>2, <1>5, <1>6, ListCons
<1>8. {row.id} \cup Listed(others) = Listed(screen.threads)
  BY <1>1, <1>2, <1>3
<1>9. QED
  BY <1>4, <1>7, <1>8

LEMMA EditSteps ==
    ASSUME ChatInv, EditProject
    PROVE  ChatInv'
<1> DEFINE list == Saved(screen.messages)
<1>1. /\ screen' = [screen EXCEPT !.threads = list]
      /\ stored' = Capped(screen'.threads) /\ send' = send /\ sends' = sends
  BY DEF EditProject
<1>2. ListFits(list, send, sends) /\ Listed(list) = Listed(screen.threads)
  BY ChatFacts, SavedFits
<1> HIDE DEF list
<1>3. /\ screen' \in ScreenRows /\ screen'.threads = list
      /\ screen'.current = screen.current /\ screen'.messages = screen.messages
      /\ screen'.sending = screen.sending /\ screen'.gone = screen.gone
  <2>1. list \in Seq(ThreadRows)
    BY <1>2 DEF ListFits
  <2>2. QED
    BY <1>1, <2>1, ChatFacts DEF ScreenRows
<1>4. ScreenFits(screen', send, sends)
  <2>1. (send.at = "asked" /\ ~ sends[send.n].left) =>
           screen.current = sends[send.n].home /\ AwaitsReply(screen.messages, send.n)
    BY DEF ChatInv, ScreenFits
  <2>2. QED
    BY <1>2, <1>3, <2>1, ChatFacts DEF ScreenFits, ScreenRows
<1>5. QED
  BY <1>1, <1>3, <1>4, ChatFacts DEF ChatInv, StoredFits

LEMMA ReplySteps ==
    ASSUME ChatInv, ReplyArrives
    PROVE  ChatInv'
<1> DEFINE below == IF screen.messages = <<>> THEN <<>>
                    ELSE [screen.messages EXCEPT ![Len(screen.messages)] = Reply(send.n)]
           list == Saved(below)
<1>1. /\ send.at = "asked" /\ send' = [send EXCEPT !.at = "saving"] /\ sends' = sends
      /\ screen' = [screen EXCEPT !.messages = below, !.threads = list]
      /\ stored' = Capped(list)
  BY DEF ReplyArrives
<1>2. /\ send' \in SendCalls /\ send'.n = send.n /\ send'.at = "saving"
      /\ send.n \in DOMAIN sends /\ ~ sends[send.n].ended
  <2>1. send \in SendCalls
    BY ChatFacts DEF CallFits
  <2>2. QED
    BY <1>1, <2>1, ChatFacts DEF SendCalls
<1>3. CallFits(send', sends)
  BY <1>2, ChatFacts DEF CallFits
<1>4. ~ sends[send.n].left =>
         screen.current = sends[send.n].home /\ AwaitsReply(screen.messages, send.n)
  BY <1>1 DEF ChatInv, ScreenFits
<1>5. \A n \in DOMAIN sends : /\ Exchanged(n, send', sends)
                              /\ sends[n].home # screen.current
                              => Exchanged(n, send, sends)
  BY <1>2, <1>4 DEF Exchanged
<1>6. ShownMessages(below, screen.current, send', sends)
  <2>1. CASE screen.messages = <<>>
    <3>1. below = <<>> /\ <<>> \in Seq(Message) /\ DOMAIN <<>> = {}
      BY <2>1
    <3>2. sends[send.n].left
      BY <1>4, <2>1 DEF AwaitsReply
    <3>3. ASSUME NEW n \in DOMAIN sends, Exchanged(n, send', sends),
                 sends[n].home = screen.current
          PROVE  FALSE
      <4>1. Exchanged(n, send, sends)
        BY <1>2, <3>2, <3>3 DEF Exchanged
      <4>2. HasReply(screen.messages, n)
        BY <3>3, <4>1, ChatFacts DEF ShownMessages, KeepsAll
      <4>3. QED
        BY <2>1, <3>1, <4>2 DEF HasReply
    <3> HIDE DEF below
    <3>4. KeepsAll(below, screen.current, send', sends)
      BY <3>3 DEF KeepsAll
    <3>5. QED
      BY <3>1, <3>4 DEF ShownMessages, Follows
  <2>2. CASE screen.messages # <<>>
    BY <1>1, <1>2, <2>2, ReplyShown
  <2>3. QED
    BY <2>1, <2>2
<1> HIDE DEF below
<1>7. /\ ListFits(list, send', sends) /\ Listed(list) = Listed(screen.threads)
  BY <1>5, <1>6, SavedFits
<1> HIDE DEF list
<1>8. /\ screen' \in ScreenRows /\ screen'.threads = list
      /\ screen'.current = screen.current /\ screen'.messages = below
      /\ screen'.sending = screen.sending /\ screen'.gone = screen.gone
  <2>1. list \in Seq(ThreadRows) /\ below \in Seq(Message)
    BY <1>6, <1>7 DEF ListFits, ShownMessages
  <2>2. QED
    BY <1>1, <2>1, ChatFacts DEF ScreenRows
<1>9. ScreenFits(screen', send', sends)
  <2>1. screen'.sending = (send'.at # "idle") /\ send'.at # "asked"
    BY <1>1, <1>2, <1>8, ChatFacts
  <2>2. QED
    BY <1>6, <1>7, <1>8, <2>1, ChatFacts DEF ScreenFits, ScreenRows
<1>10. QED
  BY <1>1, <1>3, <1>8, <1>9 DEF ChatInv, StoredFits

LEMMA ReturnSteps ==
    ASSUME ChatInv, SendReturns
    PROVE  ChatInv'
<1> DEFINE k == send.n
           row == [sends[k] EXCEPT !.ended = TRUE]
<1>1. /\ send.at = "saving" /\ screen' = [screen EXCEPT !.sending = FALSE]
      /\ send' = [n |-> 0, at |-> "idle"] /\ stored' = stored
      /\ sends' = [sends EXCEPT ![k].ended = TRUE]
  BY DEF SendReturns
<1>2. /\ k \in DOMAIN sends /\ sends \in Seq(SendRows) /\ Len(sends) <= MaxSends
      /\ DOMAIN sends = 1..Len(sends) /\ Len(sends) \in Nat
  BY <1>1, ChatFacts
<1>3. /\ row \in SendRows /\ row.left = sends[k].left /\ row.home = sends[k].home
  BY <1>2, SendFacts DEF SendRows
<1>4. sends' = [sends EXCEPT ![k] = row]
  BY <1>1, <1>2
<1> HIDE DEF row
<1>5. /\ sends' \in Seq(SendRows) /\ Len(sends') = Len(sends)
      /\ DOMAIN sends' = DOMAIN sends /\ sends'[k] = row
      /\ \A n \in DOMAIN sends : n # k => sends'[n] = sends[n]
  BY <1>2, <1>3, <1>4
<1>6. send' \in SendCalls /\ send'.at = "idle" /\ send'.n = 0
  BY <1>1 DEF SendCalls
<1>7. CallFits(send', sends')
  BY <1>2, <1>5, <1>6 DEF CallFits
<1>8. MovesOn(send, sends, send', sends')
  <2>1. \A n \in DOMAIN sends : /\ sends'[n].home = sends[n].home
                                /\ sends[n].left => sends'[n].left
    BY <1>3, <1>5
  <2>2. \A n \in DOMAIN sends : Exchanged(n, send', sends') => Exchanged(n, send, sends)
    BY <1>1, <1>3, <1>5, <1>6 DEF Exchanged
  <2>3. QED
    BY <1>5, <2>1, <2>2 DEF MovesOn
<1>9. /\ screen' \in ScreenRows /\ screen'.threads = screen.threads
      /\ screen'.current = screen.current /\ screen'.messages = screen.messages
      /\ screen'.sending = FALSE /\ screen'.gone = screen.gone
  BY <1>1, ChatFacts DEF ScreenRows
<1>10. ShownMessages(screen.messages, screen.current, send', sends')
  <2>1. /\ ShownMessages(screen.messages, screen.current, send, sends)
        /\ Follows(screen.messages, sends)
    BY ChatFacts DEF ShownMessages
  <2>2. Follows(screen.messages, sends')
    BY <1>8, <2>1, FollowsOn DEF MovesOn
  <2>3. KeepsAll(screen.messages, screen.current, send', sends')
    BY <1>5, <1>8, <2>1 DEF ShownMessages, KeepsAll, MovesOn
  <2>4. \A i \in DOMAIN screen.messages : ~ screen.messages[i].pending
    BY <1>1, <2>1 DEF ShownMessages
  <2>5. QED
    BY <2>1, <2>2, <2>3, <2>4 DEF ShownMessages
<1>11. ListFits(screen.threads, send', sends')
  BY <1>8, ChatFacts, ListOn
<1>12. \A n \in DOMAIN sends' :
          sends'[n].home \in Listed(screen.threads) \cup screen.gone
  BY <1>3, <1>5, ChatFacts
<1>13. ScreenFits(screen', send', sends')
  <2>1. screen'.sending = (send'.at # "idle") /\ send'.at # "asked"
    BY <1>6, <1>9
  <2>2. QED
    BY <1>9, <1>10, <1>11, <1>12, <2>1, ChatFacts DEF ScreenFits, ScreenRows
<1>14. QED
  BY <1>1, <1>7, <1>9, <1>13, ChatFacts DEF ChatInv

LEMMA ChatSteps == ChatInv /\ [ChatNext]_chatVars => ChatInv'
<1> SUFFICES ASSUME ChatInv, [ChatNext]_chatVars
             PROVE  ChatInv'
  OBVIOUS
<1>1. CASE UNCHANGED chatVars
  BY <1>1 DEF chatVars, ChatInv
<1>2. CASE ChatNext
  BY <1>2, AskSteps, ReplySteps, ReturnSteps, NewChatSteps, EditSteps, ReopenSteps,
     SwitchSteps, DeleteSteps DEF ChatNext
<1>3. QED
  BY <1>1, <1>2

LEMMA ChatStarts == ChatInit => ChatInv
<1> SUFFICES ASSUME ChatInit
             PROVE  ChatInv
  OBVIOUS
<1> DEFINE id == CHOOSE id \in Threads : TRUE
<1>1. id \in Threads
  BY ChatAssumption
<1>2. /\ screen = [threads |-> <<FreshThread(id)>>, current |-> id, messages |-> <<>>,
                   sending |-> FALSE, gone |-> {}]
      /\ stored = <<>> /\ send = [n |-> 0, at |-> "idle"] /\ sends = <<>>
  BY DEF ChatInit
<1> HIDE DEF id
<1>3. /\ DOMAIN sends = {} /\ sends \in Seq(SendRows) /\ Len(sends) = 0
      /\ <<>> \in Seq(Message) /\ send \in SendCalls /\ send.n = 0 /\ send.at = "idle"
  BY <1>2 DEF SendCalls
<1>4. /\ ListFits(<<FreshThread(id)>>, send, sends) /\ Listed(<<FreshThread(id)>>) = {id}
  BY <1>1, <1>3, FreshFits
<1> DEFINE list == <<FreshThread(id)>>
<1> HIDE DEF list
<1>5. /\ screen \in ScreenRows /\ screen.threads = list /\ screen.current = id
      /\ screen.messages = <<>> /\ screen.sending = FALSE /\ screen.gone = {}
  <2>1. list \in Seq(ThreadRows)
    BY <1>4 DEF ListFits, list
  <2>2. screen = [threads |-> list, current |-> id, messages |-> <<>>, sending |-> FALSE,
                  gone |-> {}]
    BY <1>2 DEF list
  <2>3. QED
    BY <1>1, <1>3, <2>1, <2>2 DEF ScreenRows
<1>6. ShownMessages(<<>>, id, send, sends)
  BY <1>3 DEF ShownMessages, Follows, KeepsAll
<1>7. ScreenFits(screen, send, sends)
  BY <1>3, <1>4, <1>5, <1>6 DEF ScreenFits, ScreenRows, list
<1>8. CallFits(send, sends)
  BY <1>3, ChatAssumption DEF CallFits
<1>9. QED
  BY <1>2, <1>7, <1>8 DEF ChatInv, StoredFits

LEMMA ChatInvSound == ChatInv => ChatTypeOK /\ ChatSound
<1> SUFFICES ASSUME ChatInv
             PROVE  ChatTypeOK /\ ChatSound
  OBVIOUS
<1>1. /\ ListFits(screen.threads, send, sends) /\ StoredFits(stored, screen.threads)
      /\ ShownMessages(screen.messages, screen.current, send, sends)
  BY ChatFacts
<1>2. ListFits(stored, send, sends)
  <2>1. CASE stored = <<>>
    BY <2>1 DEF ListFits, UniqueIds
  <2>2. CASE stored = Capped(screen.threads)
    BY <1>1, <2>2, ListCap
  <2>3. QED
    BY <1>1, <2>1, <2>2 DEF StoredFits
<1>3. \A t \in AllThreads : RowFits(t, send, sends)
  BY <1>1, <1>2 DEF AllThreads, ListFits
<1>4. ChatTypeOK
  <2>1. IsInjective([i \in DOMAIN screen.threads |-> screen.threads[i].id])
    BY <1>1 DEF IsInjective, ListFits, UniqueIds
  <2>2. send.n \in 0..Len(sends)
    <3>1. send.at = "idle" => send.n = 0
      BY ChatFacts DEF CallFits
    <3>2. QED
      BY <3>1, ChatFacts
  <2>3. /\ screen.threads \in Seq([id : Threads, messages : Seq(Message)])
        /\ stored \in Seq([id : Threads, messages : Seq(Message)])
    BY <1>1, <1>2 DEF ListFits, ThreadRows
  <2>4. screen.sending \in BOOLEAN
    BY ChatFacts DEF ScreenRows
  <2>5. QED
    BY <2>1, <2>2, <2>3, <2>4, ChatFacts DEF ChatTypeOK
<1>5. RepliesFollowQuestions
  <2>1. \A messages \in {t.messages : t \in AllThreads} \cup {screen.messages} :
           Follows(messages, sends)
    BY <1>1, <1>3 DEF RowFits, ShownMessages
  <2>2. QED
    BY <2>1 DEF RepliesFollowQuestions, Follows, FollowsAt
<1>6. ExchangesAreKept
  <2>1. \A t \in AllThreads : \A i \in DOMAIN t.messages : ~ t.messages[i].pending
    BY <1>3 DEF RowFits
  <2>2. ASSUME NEW n \in DOMAIN sends, sends[n].ended, ~ sends[n].left,
               sends[n].home \in Listed(screen.threads)
        PROVE  Contains(ThreadOf(screen.threads, sends[n].home).messages, Question(n))
    <3> DEFINE t == ThreadOf(screen.threads, sends[n].home)
    <3>1. RowFits(t, send, sends) /\ t.id = sends[n].home
      BY <1>1, <2>2, ListRow
    <3> HIDE DEF t
    <3>2. HasReply(t.messages, n)
      BY <2>2, <3>1 DEF RowFits, KeepsAll, Exchanged
    <3>3. Contains(t.messages, Question(n))
      BY <3>2 DEF HasReply, Contains
    <3>4. QED
      BY <3>3 DEF t
  <2>3. QED
    BY <2>1, <2>2 DEF ExchangesAreKept
<1>7. SavedIsCurrent
  BY <1>1 DEF SavedIsCurrent, StoredFits
<1>8. QED
  BY <1>4, <1>5, <1>6, <1>7 DEF ChatSound

\* Whatever is asked, answered late, left, saved, deleted and reopened on the
\* chat screen: a reply stays with its question, what was answered where it was
\* asked is kept as long as its thread is, no placeholder is saved, and what is
\* saved is what the screen has (_send, _saveCurrentThread, _loadThreads).
THEOREM ChatStaysSound == ChatSpec => [](ChatTypeOK /\ ChatSound)
<1>1. ChatInit => ChatInv
  BY ChatStarts
<1>2. ChatInv /\ [ChatNext]_chatVars => ChatInv'
  BY ChatSteps
<1>3. ChatInv => ChatTypeOK /\ ChatSound
  BY ChatInvSound
<1>4. QED
  BY <1>1, <1>2, <1>3, PTL DEF ChatSpec

-----------------------------------------------------------------------------
(***************************************************************************)
(* The application as a whole.  The parts share no state: a step is one of *)
(* a part, which the other parts do not see, so their invariants hold      *)
(* together.                                                               *)
(***************************************************************************)
LocalPlaces == port \in Children \cup {NoChild, Outside} /\ update \in UpdateSteps

LEMMA LocalPlacesStart == LocalInit => LocalPlaces
BY DEF LocalInit, LocalPlaces, UpdateSteps

LEMMA LocalPlacesStep ==
    ASSUME LocalInv, LocalPlaces, [LocalNext]_localVars
    PROVE  LocalPlaces'
<1>1. CASE UNCHANGED localVars
  BY <1>1 DEF localVars, LocalPlaces
<1>2. ASSUME NEW k \in Callers, CallStart(k) \/ Probe(k) \/ StartProcess(k)
      PROVE  LocalPlaces'
  BY <1>2 DEF LocalPlaces, CallStart, Probe, StartProcess, folderVars
<1>3. ASSUME NEW c \in Children, Boot(c) \/ Crash(c) \/ NoticeExit(c)
      PROVE  LocalPlaces'
  BY <1>3 DEF LocalPlaces, Boot, Crash, NoticeExit, folderVars
<1>4. ASSUME StopServer \/ UseLauncher \/ ChangeKeep \/ Close
      PROVE  LocalPlaces'
  BY <1>4 DEF LocalPlaces, StopServer, UseLauncher, ChangeKeep, Close, Killed, folderVars,
              UpdateSteps
<1>5. ASSUME BeginUpdate \/ ClearCopies \/ Clone \/ MoveSystemAside \/ PutCloneInPlace
      PROVE  LocalPlaces'
  <2>1. /\ port' = port
        /\ \/ update' = "clearing" \/ update' = "cloning" \/ update' = "moving"
           \/ update' = "placing" \/ update' = "idle"
    BY <1>5, Zenon DEF BeginUpdate, ClearCopies, Clone, MoveSystemAside, PutCloneInPlace
  <2>2. QED
    BY <2>1 DEF LocalPlaces, UpdateSteps
<1>6. QED
  BY <1>1, <1>2, <1>3, <1>4, <1>5, Zenon DEF LocalNext

LEMMA LocalInvTyped == LocalInv /\ LocalPlaces => LocalTypeOK
<1> SUFFICES ASSUME LocalInv, LocalPlaces
             PROVE  LocalTypeOK
  OBVIOUS
<1>1. LocalTyped
  BY DEF LocalInv
<1>2. /\ app.tracked \in Children \cup {NoChild}
      /\ \A c \in Children : children[c] \in {"none", "booting", "serving", "gone", "reaped"}
      /\ \A k \in Callers : calls[k] \in {"idle", "probing", "spawning"}
      /\ {folder.system, folder.next, folder.backup} \subseteq CopyStates
  BY <1>1 DEF LocalTyped
<1>3. QED
  BY <1>2 DEF LocalTypeOK, LocalPlaces

PartsInv ==
    /\ AgentInv /\ HttpInv /\ ReloadInv /\ ChatInv /\ TurnInv
    /\ LocalInv /\ LocalPlaces

LEMMA PartsStart == RequestsInit => PartsInv
BY AgentInvInit, HttpStarts, ReloadInvInit, ChatStarts, TurnStarts, LocalStarts,
   LocalPlacesStart
DEF RequestsInit, PartsInv

LEMMA PartsStep ==
    /\ RequestsNext =>
          /\ [AgentNext]_agentVars /\ [HttpNext]_httpVars /\ [ReloadNext]_reloadVars
          /\ [ChatNext]_chatVars /\ [LocalNext]_localVars
          /\ [ModelTurnsNext]_modelTurnVars
    /\ UNCHANGED requestsVars =>
          /\ UNCHANGED agentVars /\ UNCHANGED httpVars /\ UNCHANGED reloadVars
          /\ UNCHANGED chatVars /\ UNCHANGED localVars /\ UNCHANGED modelTurnVars
<1>1. ASSUME RequestsNext
      PROVE  /\ [AgentNext]_agentVars /\ [HttpNext]_httpVars /\ [ReloadNext]_reloadVars
             /\ [ChatNext]_chatVars /\ [LocalNext]_localVars
             /\ [ModelTurnsNext]_modelTurnVars
  <2>1. /\ part = "agent" \/ UNCHANGED agentVars
        /\ part = "http" \/ UNCHANGED httpVars
        /\ part = "reload" \/ UNCHANGED reloadVars
        /\ part = "chat" \/ UNCHANGED chatVars
        /\ part = "local" \/ UNCHANGED localVars
        /\ part = "turns" \/ UNCHANGED modelTurnVars
    BY <1>1, Zenon DEF RequestsNext, OthersUnchanged
  <2>2. /\ part = "agent" => AgentNext
        /\ part = "http" => HttpNext
        /\ part = "reload" => ReloadNext
        /\ part = "chat" => ChatNext
        /\ part = "local" => LocalNext
        /\ part = "turns" => ModelTurnsNext
    BY <1>1 DEF RequestsNext
  <2>3. QED
    BY <2>1, <2>2, Zenon
<1>2. ASSUME UNCHANGED requestsVars
      PROVE  /\ UNCHANGED agentVars /\ UNCHANGED httpVars /\ UNCHANGED reloadVars
             /\ UNCHANGED chatVars /\ UNCHANGED localVars /\ UNCHANGED modelTurnVars
  BY <1>2, Zenon DEF requestsVars
<1>3. QED
  BY <1>1, <1>2

LEMMA PartsKept == PartsInv /\ [RequestsNext]_requestsVars => PartsInv'
<1> SUFFICES ASSUME PartsInv, [RequestsNext]_requestsVars
             PROVE  PartsInv'
  OBVIOUS
<1>1. /\ [AgentNext]_agentVars /\ [HttpNext]_httpVars /\ [ReloadNext]_reloadVars
      /\ [ChatNext]_chatVars /\ [LocalNext]_localVars /\ [ModelTurnsNext]_modelTurnVars
  BY PartsStep, Zenon
<1>2. /\ AgentInv /\ HttpInv /\ ReloadInv /\ ChatInv /\ TurnInv
      /\ LocalInv /\ LocalPlaces
  BY DEF PartsInv
<1>3. AgentInv' /\ HttpInv' /\ ReloadInv'
  BY <1>1, <1>2, AgentInvStep, HttpSteps, ReloadInvStep
<1>4. ChatInv' /\ TurnInv'
  BY <1>1, <1>2, ChatSteps, TurnSteps
<1>5. LocalInv' /\ LocalPlaces'
  BY <1>1, <1>2, LocalSteps, LocalPlacesStep
<1>6. QED
  BY <1>3, <1>4, <1>5 DEF PartsInv

\* The application and what answers it, together: the chats keep what was said
\* and the turns of a session are summarised once, answered with all that was
\* said and rated by what was shown, while the state of the agent, the server,
\* the reload and the application's own server stays well formed.
THEOREM ApplicationStaysSound == RequestsSpec => []ApplicationSound
<1>1. RequestsInit => PartsInv
  BY PartsStart
<1>2. PartsInv /\ [RequestsNext]_requestsVars => PartsInv'
  BY PartsKept
<1>3. PartsInv => ApplicationSound
  <2> SUFFICES ASSUME PartsInv
               PROVE  ApplicationSound
    OBVIOUS
  <2>1. AgentTypeOK /\ ReloadTypeOK
    BY DEF PartsInv, AgentInv, ReloadInv
  <2>2. HttpTypeOK /\ LocalTypeOK
    BY HttpInvTyped, LocalInvTyped DEF PartsInv
  <2>3. ChatTypeOK /\ ChatSound /\ ModelTurnsTypeOK /\ ModelTurnsSound
    BY ChatInvSound, TurnInvSound DEF PartsInv
  <2>4. QED
    BY <2>1, <2>2, <2>3 DEF ApplicationSound, RequestsTypeOK
<1>4. QED
  BY <1>1, <1>2, <1>3, PTL DEF RequestsSpec
=============================================================================
