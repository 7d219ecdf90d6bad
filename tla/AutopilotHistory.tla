-------------------------- MODULE AutopilotHistory --------------------------
(***************************************************************************)
(* The controllers with a history variable, for what a pause promises:     *)
(* properties of pauses relate a step to requests made several steps ago.  *)
(***************************************************************************)
EXTENDS AutopilotController

VARIABLES
    starts      \* tasks started in a run since a pause was requested

hvars == <<runs, ctl, starts>>

HistoryInit ==
    /\ Init
    /\ starts = [r \in Runs |-> 0]

TaskStarted(r) == runs[r].current = 0 /\ runs'[r].current # 0

HistoryNext ==
    /\ Next
    /\ starts' = [r \in Runs |->
          IF ~ runs'[r].pauseReq THEN 0
          ELSE IF TaskStarted(r) THEN starts[r] + 1
          ELSE starts[r]]

HistorySpec == HistoryInit /\ [][HistoryNext]_hvars

\* A pause requested while a run executes takes effect at the next host
\* checkpoint: from the request to the release at most one more task starts,
\* the one whose checkpoint was already passed.
PauseTakesEffect == \A r \in Runs : starts[r] <= 1

\* One controller executes a run at a time, and a pause takes effect.
ControlIsExclusive == ExclusiveExecution /\ PauseTakesEffect
=============================================================================
