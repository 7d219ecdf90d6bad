---------------------------- MODULE FleetTiming ----------------------------
(***************************************************************************)
(* The fleet with a history variable: the agents that were active in their *)
(* process's mirror when its heartbeat thread last woke.                   *)
(***************************************************************************)
EXTENDS FleetOrchestrator

VARIABLE covered

timedVars == <<agents, owners, proc, jobs, work, covered>>

TimedInit == Init /\ covered = {}

Woke(o) == proc[o].timer = 0 /\ proc'[o].timer # 0

TimedNext ==
    /\ Next
    /\ covered' = {a \in Agents :
                      /\ agents'[a].status \in Active
                      /\ a \in covered \/ \E o \in Owners :
                            Woke(o) /\ agents[a].owner = o /\ a \in proc[o].mirror}

TimedSpec == TimedInit /\ [][TimedNext]_timedVars

\* Once the heartbeat thread has woken to an agent, nobody interrupts it
\* while its process is up and beats in time, cancelled or not
\* (_heartbeat_loop against reconcile_stale_owners in any process).
CoveredWorkKept ==
    [][\A a \in covered, o \in Owners :
          agents[a].owner = o /\ proc[o].mode = "up" /\ proc'[o].mode = "up" =>
              agents'[a].status # "interrupted"]_timedVars
=============================================================================
