-------------------------- MODULE AutopilotClients --------------------------
(***************************************************************************)
(* The autopilot ledger under the most general client: any caller may      *)
(* invoke any operation with any argument.                                 *)
(***************************************************************************)
EXTENDS AutopilotStore

ClientInit == runs = [r \in Runs |-> AbsentRow]

ClientNext ==
    \/ \E r \in Runs :
          \/ CreateRun(r)
          \/ RequestPause(r)
          \/ RequestCancel(r)
          \/ LeaseExpires(r)
    \/ \E r \in Runs, o \in Owners :
          \/ ClaimRun(r, o)
          \/ Heartbeat(r, o)
          \/ \E u \in Updates : SaveProgress(r, o, u)
          \/ \E s \in FinishStatuses : FinishRun(r, o, s)
    \/ \E D \in SUBSET Owners : ReconcileStaleRuns(D)

ClientSpec == ClientInit /\ [][ClientNext]_runs
=============================================================================
