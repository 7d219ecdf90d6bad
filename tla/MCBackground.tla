---------------------------- MODULE MCBackground ----------------------------
\* Small instances of work in the background: a fleet process with two masters
\* and two autopilot controllers over one run, whose heartbeats come in time,
\* the tools that maintain the memory, and the programs that build and install
\* a release.  They share nothing, so a behaviour is one of one of them.
EXTENDS FleetTiming, LessonMemory, OfflineBundle, Sequences, TLC

CONSTANTS r1, k1, k2, NoRun, NoController, Unchanged

VARIABLES part, runs, ctl, starts

NoTeam == [m \in Masters |-> <<>>]
\* A plan that needs the host to add its validation; leases of live owners are
\* renewed, pauses come at any moment.  (What is proved of the controllers comes
\* with the instance: AutopilotProofs extends AutopilotHistory.)
Autopilot == INSTANCE AutopilotProofs WITH
    Runs <- {r1}, Owners <- {k1, k2}, NoOwner <- NoController, Keep <- Unchanged,
    MaxTasks <- 3, MaxFailures <- 2, MaxReplans <- 1, MaxTotalCycles <- 2,
    MaxCheckpoints <- 1, MaxCycles <- 2, Adaptive <- FALSE,
    PlannerTasks <- {<<"implement">>}, ReplanTasks <- {<<"implement">>},
    ClockMayJump <- FALSE

ASSUME BackgroundAssumption ==
    /\ NoController \notin {k1, k2} /\ NoRun # r1
    /\ Unchanged \notin Seq(Autopilot!Task) \cup Nat \cup BOOLEAN \cup {"running"}

controlVars == <<runs, ctl, starts>>
backgroundVars == <<part, timedVars, controlVars, memoryVars, bundleVars>>

\* What a part starts from varies in its own behaviours only.
BackgroundInit ==
    /\ part \in {"autopilot", "fleet", "memory", "bundle"}
    /\ TimedInit /\ Autopilot!HistoryInit
    /\ MemoryInit /\ (part # "memory" => fts = {})
    /\ BundleInit /\ (part # "bundle" => models = NoModels /\ published = {}
                                         /\ pulled.model = 1)

OthersUnchanged(p, v) == part # p => UNCHANGED v

BackgroundNext ==
    /\ \/ part = "fleet" /\ TimedNext
       \/ part = "autopilot" /\ Autopilot!HistoryNext
       \/ part = "memory" /\ MemoryNext
       \/ part = "bundle" /\ BundleNext
    /\ OthersUnchanged("fleet", timedVars)
    /\ OthersUnchanged("autopilot", controlVars)
    /\ OthersUnchanged("memory", memoryVars)
    /\ OthersUnchanged("bundle", bundleVars)
    /\ UNCHANGED part

BackgroundSpec == BackgroundInit /\ [][BackgroundNext]_backgroundVars

\* One controller executes a run at a time, and a pause takes effect at the
\* next host checkpoint.
ControlIsExclusive == Autopilot!ControlIsExclusive
=============================================================================
