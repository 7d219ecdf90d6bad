------------------------ MODULE MCFleetOrchestrator ------------------------
(* The fleet's processes, for TLC: at most two masters, m1 with children. *)
EXTENDS FleetOrchestrator, TLC

CONSTANTS m1, m2, m3, c1, c2

OneChild == [m \in Masters |-> IF m = m1 THEN <<c1>> ELSE <<>>]
TwoChildren == [m \in Masters |-> IF m = m1 THEN <<c1, c2>> ELSE <<>>]

OwnerSymmetry == Permutations(Owners)

\* Every run ends or dies with its process, and the work of a process that
\* crashed is interrupted (RunsEnd, OrphansInterrupted of FleetOrchestrator).
FleetComesToRest == RunsEnd /\ OrphansInterrupted
=============================================================================
