-------------------------- MODULE ProcessLiveness --------------------------
(***************************************************************************)
(* process_liveness.py: what a probe of a process id may answer about the  *)
(* process that once held it.  Ids are reused; an identity (the boot and   *)
(* the start time) belongs to one process.                                 *)
(***************************************************************************)
EXTENDS Naturals

CONSTANTS
    Instances,   \* processes, named by their identity
    PidOf,       \* PidOf[i]: the process id of i
    NoIdentity

ASSUME InstancesAssumption == NoIdentity \notin Instances

VARIABLE life    \* life[i]: "new", "up" or "gone" (a zombie is gone)

LifeInit == life = [i \in Instances |-> "new"]

LifeTypeOK == life \in [Instances -> {"new", "up", "gone"}]

\* The operating system starts and ends processes; an id has one at a time.
Start(i) ==
    /\ life[i] = "new"
    /\ \A j \in Instances : PidOf[j] = PidOf[i] => life[j] # "up"
    /\ life' = [life EXCEPT ![i] = "up"]

Kill(i) == life[i] = "up" /\ life' = [life EXCEPT ![i] = "gone"]

\* What the platform says of an id: the process table may be unreadable, and
\* so may the identity of a process that it shows.
PlatformProbe(pid) ==
    LET seen == {i \in Instances : life[i] = "up" /\ PidOf[i] = pid}
    IN  {[state |-> "unknown", identity |-> NoIdentity]}
          \cup [state : {"alive"}, identity : seen]
          \cup {[state |-> IF seen = {} THEN "dead" ELSE "alive",
                 identity |-> NoIdentity]}

\* probe_process(pid, expected_identity).
Judge(answer, expected) ==
    IF answer.state # "alive" THEN answer.state
    ELSE IF answer.identity = NoIdentity THEN "unknown"
    ELSE IF answer.identity # expected THEN "dead" ELSE "alive"

ProbeStates(i) == {Judge(answer, i) : answer \in PlatformProbe(PidOf[i])}
=============================================================================
